---- MODULE Spec2Model ----
(***************************************************************************)
(* Logical decoding session and retention advancement protocol of a        *)
(* logical replication slot, as implemented in                             *)
(* src/backend/replication/logical/logical.c:                              *)
(*   CreateInitDecodingContext, CreateDecodingContext,                     *)
(*   StartupDecodingContext, DecodingContextFindStartpoint,                *)
(*   FreeDecodingContext, OutputPluginPrepareWrite, OutputPluginWrite,     *)
(*   the ..._cb_wrapper functions, LogicalIncreaseXminForSlot,             *)
(*   LogicalIncreaseRestartDecodingForSlot, LogicalConfirmReceivedLocation,*)
(*   EnsureActiveLogicalSlotValid,                                         *)
(*   ResolveRecoveryConflictWithLogicalDecoding.                           *)
(*                                                                         *)
(* One slot (MyReplicationSlot) is driven by its single owning backend.    *)
(* The backend's position in the code is pc (inside the slot functions)    *)
(* and cb (inside a plugin callback); code that runs between               *)
(* SpinLockAcquire and SpinLockRelease is one step taken with mutex held.  *)
(* Every state of the model is a state a concurrent reader of the slot     *)
(* (vacuum, the recovery process) may observe.                             *)
(*                                                                         *)
(* The recovery-conflict resolver runs in the startup process of a         *)
(* standby over the slot array replication_slots, whose entries other      *)
(* backends create, take, advance, release and drop meanwhile; resolver    *)
(* holds its position, its locals and its hold count of                    *)
(* ReplicationSlotControlLock.                                             *)
(***************************************************************************)
EXTENDS Integers, FiniteSets, Sequences, TLC

\* ---------------------------------------------------------------- bounds
\* Largest log position (LSN) the model draws.
MaxLsn == 3
\* Largest transaction id the model draws.  All xids stay far below 2^31,
\* so the signed 32-bit difference used by the xid comparisons never wraps
\* inside the model and is the plain integer difference.
MaxXid == 5
\* Largest number of forwarded prepare-write (and write) calls counted.
MaxForwarded == 2
\* Largest number of failed slot saves in one behaviour.
MaxSaveFailures == 1
\* Largest process id of a backend that takes slots on the standby.
MaxPid == 2

\* ------------------------------------------------------ program constants
InvalidXLogRecPtr == 0
InvalidTransactionId == 0
FirstNormalTransactionId == 3
InvalidOid == 0
\* The database the backend is connected to, and the databases a slot can
\* belong to: none (a physical slot), this one, another one.
MyDatabaseId == 1
Databases == {InvalidOid, MyDatabaseId, MyDatabaseId + 1}
\* The number of entries of ReplicationSlotCtl->replication_slots.
max_replication_slots == 2

Lsns == 1..MaxLsn
Pids == 1..MaxPid
Xids == FirstNormalTransactionId..MaxXid

\* ------------------------------------------------------- xid comparisons
TransactionIdIsValid(xid) == xid # InvalidTransactionId

TransactionIdIsNormal(xid) == xid >= FirstNormalTransactionId

\* transam.c: special xids compare as plain unsigned integers, normal xids
\* by the sign of the 32-bit difference.
TransactionIdPrecedes(id1, id2) ==
    IF ~TransactionIdIsNormal(id1) \/ ~TransactionIdIsNormal(id2)
    THEN id1 < id2
    ELSE (id1 - id2) < 0

TransactionIdPrecedesOrEquals(id1, id2) ==
    IF ~TransactionIdIsNormal(id1) \/ ~TransactionIdIsNormal(id2)
    THEN id1 <= id2
    ELSE (id1 - id2) <= 0

TransactionIdFollows(id1, id2) ==
    IF ~TransactionIdIsNormal(id1) \/ ~TransactionIdIsNormal(id2)
    THEN id1 > id2
    ELSE (id1 - id2) > 0

\* ------------------------------------------------------------------ state
VARIABLES
    phase,              \* lifecycle of the session bound to the slot
    pc,                 \* position of the owning backend in the slot code
    slot,               \* the ReplicationSlot in shared memory
    mutex,              \* slot->mutex is held
    disk,               \* slot->data as last written by ReplicationSlotSave
    required_xmin,      \* catalog xmin last published by
                        \* ReplicationSlotsComputeRequiredXmin
    EndRecPtr,          \* ctx->reader->EndRecPtr
    lsn,                \* parameter of LogicalConfirmReceivedLocation
    updated_xmin,       \* local of LogicalConfirmReceivedLocation
    updated_restart,    \* local of LogicalConfirmReceivedLocation
    arg,                \* parameters of the LogicalIncrease...ForSlot call
    updated,            \* updated_xmin / updated_lsn local of that call
    call,               \* history: operation entered last, its arguments
                        \* and the slot as it was on entry
    last_ack,           \* history: position of the driver's previous
                        \* acknowledgement, where the driver orders them
    adopted_at,         \* history: trigger positions of the candidates
                        \* adopted by the call in progress
    plugin,             \* the optional callbacks the output plugin's
                        \* _PG_output_plugin_init registers
    ctx,                \* the LogicalDecodingContext
    error_context_stack,\* the error context stack, innermost frame last
    cb,                 \* the plugin callback that is executing, or "none"
    fault,              \* the error that ended the session, or "none"
    out,                \* history: calls forwarded to the output routines,
                        \* callbacks invoked, sub-resources released
    xact,               \* the backend's transaction: "none", "read" (no
                        \* xid assigned) or "write" (a top-level xid)
    ShmemVariableCache, \* its field oldestCatalogXmin
    RecoveryInProgress, \* the server is a standby replaying WAL
    procArray,          \* ProcArrayLock and what the other backends
                        \* compute under it
    InHotStandby,       \* the standby accepts connections
    replication_slots,  \* ReplicationSlotCtl->replication_slots, as the
                        \* startup process scans it
    resolver,           \* the startup process inside
                        \* ResolveRecoveryConflictWithLogicalDecoding
    signals             \* pids with a recovery-conflict signal pending

vars == <<phase, pc, slot, mutex, disk, required_xmin, EndRecPtr, lsn,
          updated_xmin, updated_restart, arg, updated, call, last_ack,
          adopted_at, plugin, ctx, error_context_stack, cb, fault, out,
          xact, ShmemVariableCache, RecoveryInProgress, procArray,
          InHotStandby, replication_slots, resolver, signals>>

session == <<plugin, ctx, error_context_stack, cb, fault, out>>
server == <<xact, ShmemVariableCache, RecoveryInProgress, procArray>>
standby == <<InHotStandby, replication_slots, resolver, signals>>

\* The slot handed to CreateInitDecodingContext: a slot of this database,
\* every position and xid still zero.
FreshSlot ==
    [data |-> [database |-> MyDatabaseId,
               confirmed_flush |-> InvalidXLogRecPtr,
               restart_lsn |-> InvalidXLogRecPtr,
               catalog_xmin |-> InvalidTransactionId],
     effective_catalog_xmin |-> InvalidTransactionId,
     candidate_catalog_xmin |-> InvalidTransactionId,
     candidate_xmin_lsn |-> InvalidXLogRecPtr,
     candidate_restart_valid |-> InvalidXLogRecPtr,
     candidate_restart_lsn |-> InvalidXLogRecPtr]

NoCall == [op |-> "none", lsn |-> 0, val |-> 0, entry |-> FreshSlot,
           at |-> "idle"]

\* No decoding context exists yet.
NoContext ==
    [context |-> "none", reader |-> "null", reorder |-> "null",
     snapshot_builder |-> "null",
     callbacks |-> [startup_cb |-> FALSE, begin_cb |-> FALSE,
                    change_cb |-> FALSE, commit_cb |-> FALSE,
                    message_cb |-> FALSE, filter_by_origin_cb |-> FALSE,
                    shutdown_cb |-> FALSE],
     accept_writes |-> FALSE, prepared_write |-> FALSE,
     write_xid |-> InvalidTransactionId,
     write_location |-> InvalidXLogRecPtr,
     \* what the snapshot builder was given as start_lsn, and whether its
     \* state is SNAPBUILD_CONSISTENT
     start_decoding_at |-> InvalidXLogRecPtr, consistent |-> FALSE]

\* An output plugin that registers every callback.
FullPlugin ==
    [startup_cb |-> TRUE, begin_cb |-> TRUE, change_cb |-> TRUE,
     commit_cb |-> TRUE, message_cb |-> TRUE, filter_by_origin_cb |-> TRUE,
     shutdown_cb |-> TRUE]

\* The output plugins a session can run under: begin_cb, change_cb and
\* commit_cb are mandatory (LoadOutputPlugin), the other callbacks may be
\* left NULL.
Plugins ==
    [startup_cb : BOOLEAN, begin_cb : {TRUE}, change_cb : {TRUE},
     commit_cb : {TRUE}, message_cb : BOOLEAN,
     filter_by_origin_cb : BOOLEAN, shutdown_cb : BOOLEAN]

\* What a plugin's _PG_output_plugin_init can leave in the callback
\* struct: the plugins above, and plugins that leave out mandatory
\* callbacks.
LoadedPlugins ==
    {FullPlugin,
     [FullPlugin EXCEPT !.startup_cb = FALSE],
     [FullPlugin EXCEPT !.begin_cb = FALSE],
     [FullPlugin EXCEPT !.change_cb = FALSE],
     [FullPlugin EXCEPT !.commit_cb = FALSE],
     [FullPlugin EXCEPT !.startup_cb = FALSE, !.message_cb = FALSE,
                        !.filter_by_origin_cb = FALSE,
                        !.shutdown_cb = FALSE],
     [FullPlugin EXCEPT !.begin_cb = FALSE, !.change_cb = FALSE,
                        !.commit_cb = FALSE]}

NothingOut ==
    [prepare_write |-> 0, write |-> 0, startup |-> "no", shutdown |-> 0,
     \* state.report_location of the wrapper that is executing
     report_location |-> InvalidXLogRecPtr,
     \* the xid of the transaction the executing wrapper was called with
     txn |-> InvalidTransactionId,
     \* the xid and the position ctx->prepare_write was given by the
     \* OutputPluginPrepareWrite no OutputPluginWrite has followed yet
     prepared |-> [xid |-> InvalidTransactionId,
                   location |-> InvalidXLogRecPtr],
     save_failures |-> 0,
     \* the slot was created on a primary that had no record of the oldest
     \* catalog xmin
     created_without_record |-> FALSE,
     released |-> [reorder |-> 0, snapshot_builder |-> 0, reader |-> 0]]

InitSlot ==
    /\ phase = "fresh"
    /\ pc = "idle"
    /\ slot = FreshSlot
    /\ mutex = FALSE
    /\ disk = FreshSlot.data
    /\ required_xmin = InvalidTransactionId
    /\ EndRecPtr = InvalidXLogRecPtr
    /\ lsn = InvalidXLogRecPtr
    /\ updated_xmin = FALSE
    /\ updated_restart = FALSE
    /\ arg = [lsn |-> 0, val |-> 0]
    /\ updated = FALSE
    /\ call = NoCall
    /\ last_ack = InvalidXLogRecPtr
    /\ adopted_at = [xmin |-> 0, restart |-> 0]
    /\ ctx = NoContext
    /\ cb = "none"
    /\ fault = "none"
    /\ out = NothingOut

\* An entry of the slot array that no slot uses.
FreeEntry ==
    [in_use |-> FALSE, data |-> [database |-> InvalidOid], active_pid |-> 0,
     effective_catalog_xmin |-> InvalidTransactionId]

\* The startup process outside ResolveRecoveryConflictWithLogicalDecoding;
\* lock counts its holds of ReplicationSlotControlLock.
IdleResolver ==
    [pc |-> "idle", new_catalog_xmin |-> InvalidTransactionId, i |-> 0,
     active_pid |-> 0, lock |-> 0]

\* A primary that is not replaying anything: no startup process, and the
\* slot array is not followed.
InitPrimary ==
    /\ RecoveryInProgress = FALSE
    /\ InHotStandby = FALSE
    /\ replication_slots = [i \in 1..max_replication_slots |-> FreeEntry]
    /\ resolver = IdleResolver
    /\ signals = {}

\* The backend is outside a transaction, and the installation has a record
\* of the oldest catalog xmin that precedes every xid in use.
\* Nobody holds ProcArrayLock; oldest_xmin is the oldest xid a running
\* transaction still needs, horizon the xmin horizon a backend computed
\* last (none yet).
IdleProcArray ==
    [lock |-> "free", oldest_xmin |-> FirstNormalTransactionId,
     horizon |-> InvalidTransactionId]

InitServer ==
    /\ xact = "none"
    /\ procArray = IdleProcArray
    /\ ShmemVariableCache = [oldestCatalogXmin |-> FirstNormalTransactionId]
    /\ InitPrimary

\* The slot protocol is followed under one plugin and from the backend's
\* top level.
Init ==
    /\ InitSlot
    /\ InitServer
    /\ plugin = FullPlugin
    /\ error_context_stack = <<>>

\* The session is followed under every plugin, called with or without an
\* error context frame of the caller on the stack.
InitSession ==
    /\ InitSlot
    /\ InitServer
    /\ plugin \in Plugins
    /\ error_context_stack \in {<<>>, <<"caller">>}

locals == <<lsn, updated_xmin, updated_restart, arg, updated>>
history == <<call, last_ack, adopted_at>>

\* The function returns to its caller in the decoding loop: its parameters
\* and locals are gone.
Return ==
    /\ pc' = "returned"
    /\ lsn' = InvalidXLogRecPtr
    /\ updated_xmin' = FALSE
    /\ updated_restart' = FALSE
    /\ arg' = [lsn |-> 0, val |-> 0]
    /\ updated' = FALSE
    /\ adopted_at' = [xmin |-> 0, restart |-> 0]

\* ------------------------------------------------ code under slot->mutex
\* Each operator is the block of statements one function runs between
\* SpinLockAcquire and SpinLockRelease, as a function of the slot and the
\* call's parameters; it yields the slot and the function's local flags.

\* Variants of IncreaseXminLocked, each with one plausible slip.
\* (1) the test for a forward-moving xmin is missing
IncreaseXminLocked_NoForwardTest(s, current_lsn, xmin) ==
    IF current_lsn <= s.data.confirmed_flush
    THEN [slot |-> [s EXCEPT !.candidate_catalog_xmin = xmin,
                             !.candidate_xmin_lsn = current_lsn],
          updated |-> TRUE]
    ELSE IF s.candidate_xmin_lsn = InvalidXLogRecPtr
    THEN [slot |-> [s EXCEPT !.candidate_catalog_xmin = xmin,
                             !.candidate_xmin_lsn = current_lsn],
          updated |-> FALSE]
    ELSE [slot |-> s, updated |-> FALSE]

\* (2) a candidate that is already valid is enforced on the spot
IncreaseXminLocked_DirectEffective(s, current_lsn, xmin) ==
    IF TransactionIdPrecedesOrEquals(xmin, s.data.catalog_xmin)
    THEN [slot |-> s, updated |-> FALSE]
    ELSE IF current_lsn <= s.data.confirmed_flush
    THEN [slot |-> [s EXCEPT !.candidate_catalog_xmin = xmin,
                             !.candidate_xmin_lsn = current_lsn,
                             !.effective_catalog_xmin = xmin],
          updated |-> TRUE]
    ELSE IF s.candidate_xmin_lsn = InvalidXLogRecPtr
    THEN [slot |-> [s EXCEPT !.candidate_catalog_xmin = xmin,
                             !.candidate_xmin_lsn = current_lsn],
          updated |-> FALSE]
    ELSE [slot |-> s, updated |-> FALSE]

\* (3) a pending candidate is overwritten by every later proposal
IncreaseXminLocked_Overwrite(s, current_lsn, xmin) ==
    IF TransactionIdPrecedesOrEquals(xmin, s.data.catalog_xmin)
    THEN [slot |-> s, updated |-> FALSE]
    ELSE [slot |-> [s EXCEPT !.candidate_catalog_xmin = xmin,
                             !.candidate_xmin_lsn = current_lsn],
          updated |-> current_lsn <= s.data.confirmed_flush]

\* (4) "already confirmed" is tested with < instead of <=
IncreaseXminLocked_StrictlyPast(s, current_lsn, xmin) ==
    IF TransactionIdPrecedesOrEquals(xmin, s.data.catalog_xmin)
    THEN [slot |-> s, updated |-> FALSE]
    ELSE IF current_lsn < s.data.confirmed_flush
    THEN [slot |-> [s EXCEPT !.candidate_catalog_xmin = xmin,
                             !.candidate_xmin_lsn = current_lsn],
          updated |-> TRUE]
    ELSE IF s.candidate_xmin_lsn = InvalidXLogRecPtr
    THEN [slot |-> [s EXCEPT !.candidate_catalog_xmin = xmin,
                             !.candidate_xmin_lsn = current_lsn],
          updated |-> FALSE]
    ELSE [slot |-> s, updated |-> FALSE]

\* (5) a pending candidate gives way to a proposal with a newer xmin
IncreaseXminLocked_ReplaceByNewer(s, current_lsn, xmin) ==
    IF TransactionIdPrecedesOrEquals(xmin, s.data.catalog_xmin)
    THEN [slot |-> s, updated |-> FALSE]
    ELSE IF current_lsn <= s.data.confirmed_flush
    THEN [slot |-> [s EXCEPT !.candidate_catalog_xmin = xmin,
                             !.candidate_xmin_lsn = current_lsn],
          updated |-> TRUE]
    ELSE IF \/ s.candidate_xmin_lsn = InvalidXLogRecPtr
            \/ TransactionIdFollows(xmin, s.candidate_catalog_xmin)
    THEN [slot |-> [s EXCEPT !.candidate_catalog_xmin = xmin,
                             !.candidate_xmin_lsn = current_lsn],
          updated |-> FALSE]
    ELSE [slot |-> s, updated |-> FALSE]

\* A candidate recorded on the xmin track drops the one of the restart
\* track.
IncreaseXminLocked_DropsRestartCandidate(s, current_lsn, xmin) ==
    IF TransactionIdPrecedesOrEquals(xmin, s.data.catalog_xmin)
    THEN [slot |-> s, updated |-> FALSE]
    ELSE IF current_lsn <= s.data.confirmed_flush
    THEN [slot |-> [s EXCEPT !.candidate_catalog_xmin = xmin,
                             !.candidate_xmin_lsn = current_lsn],
          updated |-> TRUE]
    ELSE IF s.candidate_xmin_lsn = InvalidXLogRecPtr
    THEN [slot |-> [s EXCEPT !.candidate_catalog_xmin = xmin,
                             !.candidate_xmin_lsn = current_lsn,
                             !.candidate_restart_valid = InvalidXLogRecPtr,
                             !.candidate_restart_lsn = InvalidXLogRecPtr],
          updated |-> FALSE]
    ELSE [slot |-> s, updated |-> FALSE]

\* LogicalIncreaseXminForSlot, the if / else if / else if chain.
IncreaseXminLocked(s, current_lsn, xmin) ==
    IF TransactionIdPrecedesOrEquals(xmin, s.data.catalog_xmin)
    THEN [slot |-> s, updated |-> FALSE]
    ELSE IF current_lsn <= s.data.confirmed_flush
    THEN [slot |-> [s EXCEPT !.candidate_catalog_xmin = xmin,
                             !.candidate_xmin_lsn = current_lsn],
          updated |-> TRUE]
    ELSE IF s.candidate_xmin_lsn = InvalidXLogRecPtr
    THEN [slot |-> [s EXCEPT !.candidate_catalog_xmin = xmin,
                             !.candidate_xmin_lsn = current_lsn],
          updated |-> FALSE]
    ELSE [slot |-> s, updated |-> FALSE]

\* LogicalIncreaseRestartDecodingForSlot.  The first two tests form an
\* if / else if; the test of candidate_restart_valid that follows is a
\* separate if, evaluated on the slot the first statement left behind.
IncreaseRestartLocked(s, current_lsn, restart_lsn) ==
    LET first ==
            IF restart_lsn <= s.data.restart_lsn
            THEN [slot |-> s, updated |-> FALSE]
            ELSE IF current_lsn <= s.data.confirmed_flush
            THEN [slot |-> [s EXCEPT !.candidate_restart_valid = current_lsn,
                                     !.candidate_restart_lsn = restart_lsn],
                  updated |-> TRUE]
            ELSE [slot |-> s, updated |-> FALSE]
        s1 == first.slot
    IN  IF s1.candidate_restart_valid = InvalidXLogRecPtr
        THEN [slot |-> [s1 EXCEPT !.candidate_restart_valid = current_lsn,
                                  !.candidate_restart_lsn = restart_lsn],
              updated |-> first.updated]
        ELSE [slot |-> s1, updated |-> first.updated]

\* Variants of ConfirmLocked, each with one plausible slip.
\* (1) a pending candidate is adopted whatever its trigger position
ConfirmLocked_NoTriggerTest(s, l) ==
    LET s0 == [s EXCEPT !.data.confirmed_flush = l]
        bump_xmin ==
            /\ s0.candidate_xmin_lsn # InvalidXLogRecPtr
            /\ TransactionIdIsValid(s0.candidate_catalog_xmin)
            /\ s0.data.catalog_xmin # s0.candidate_catalog_xmin
        s1 == IF bump_xmin
              THEN [s0 EXCEPT !.data.catalog_xmin = s0.candidate_catalog_xmin,
                              !.candidate_catalog_xmin = InvalidTransactionId,
                              !.candidate_xmin_lsn = InvalidXLogRecPtr]
              ELSE s0
        bump_restart ==
            /\ s1.candidate_restart_valid # InvalidXLogRecPtr
        s2 == IF bump_restart
              THEN [s1 EXCEPT !.data.restart_lsn = s1.candidate_restart_lsn,
                              !.candidate_restart_lsn = InvalidXLogRecPtr,
                              !.candidate_restart_valid = InvalidXLogRecPtr]
              ELSE s1
    IN  [slot |-> s2, updated_xmin |-> bump_xmin,
         updated_restart |-> bump_restart]

\* (2) effective_catalog_xmin is advanced together with catalog_xmin
ConfirmLocked_EarlyEffective(s, l) ==
    LET s0 == [s EXCEPT !.data.confirmed_flush = l]
        bump_xmin ==
            /\ s0.candidate_xmin_lsn # InvalidXLogRecPtr
            /\ s0.candidate_xmin_lsn <= l
            /\ TransactionIdIsValid(s0.candidate_catalog_xmin)
            /\ s0.data.catalog_xmin # s0.candidate_catalog_xmin
        s1 == IF bump_xmin
              THEN [s0 EXCEPT !.data.catalog_xmin = s0.candidate_catalog_xmin,
                              !.effective_catalog_xmin = s0.candidate_catalog_xmin,
                              !.candidate_catalog_xmin = InvalidTransactionId,
                              !.candidate_xmin_lsn = InvalidXLogRecPtr]
              ELSE s0
        bump_restart ==
            /\ s1.candidate_restart_valid # InvalidXLogRecPtr
            /\ s1.candidate_restart_valid <= l
        s2 == IF bump_restart
              THEN [s1 EXCEPT !.data.restart_lsn = s1.candidate_restart_lsn,
                              !.candidate_restart_lsn = InvalidXLogRecPtr,
                              !.candidate_restart_valid = InvalidXLogRecPtr]
              ELSE s1
    IN  [slot |-> s2, updated_xmin |-> bump_xmin,
         updated_restart |-> bump_restart]

\* (3) the trigger tests use < instead of <=
ConfirmLocked_StrictlyPast(s, l) ==
    LET s0 == [s EXCEPT !.data.confirmed_flush = l]
        bump_xmin ==
            /\ s0.candidate_xmin_lsn # InvalidXLogRecPtr
            /\ s0.candidate_xmin_lsn < l
            /\ TransactionIdIsValid(s0.candidate_catalog_xmin)
            /\ s0.data.catalog_xmin # s0.candidate_catalog_xmin
        s1 == IF bump_xmin
              THEN [s0 EXCEPT !.data.catalog_xmin = s0.candidate_catalog_xmin,
                              !.candidate_catalog_xmin = InvalidTransactionId,
                              !.candidate_xmin_lsn = InvalidXLogRecPtr]
              ELSE s0
        bump_restart ==
            /\ s1.candidate_restart_valid # InvalidXLogRecPtr
            /\ s1.candidate_restart_valid < l
        s2 == IF bump_restart
              THEN [s1 EXCEPT !.data.restart_lsn = s1.candidate_restart_lsn,
                              !.candidate_restart_lsn = InvalidXLogRecPtr,
                              !.candidate_restart_valid = InvalidXLogRecPtr]
              ELSE s1
    IN  [slot |-> s2, updated_xmin |-> bump_xmin,
         updated_restart |-> bump_restart]

\* (4) the restart candidate is looked at only when the xmin candidate was
\* not adopted (else if instead of if)
ConfirmLocked_OneTrackPerCall(s, l) ==
    LET s0 == [s EXCEPT !.data.confirmed_flush = l]
        bump_xmin ==
            /\ s0.candidate_xmin_lsn # InvalidXLogRecPtr
            /\ s0.candidate_xmin_lsn <= l
            /\ TransactionIdIsValid(s0.candidate_catalog_xmin)
            /\ s0.data.catalog_xmin # s0.candidate_catalog_xmin
        s1 == IF bump_xmin
              THEN [s0 EXCEPT !.data.catalog_xmin = s0.candidate_catalog_xmin,
                              !.candidate_catalog_xmin = InvalidTransactionId,
                              !.candidate_xmin_lsn = InvalidXLogRecPtr]
              ELSE s0
        bump_restart ==
            /\ ~bump_xmin
            /\ s1.candidate_restart_valid # InvalidXLogRecPtr
            /\ s1.candidate_restart_valid <= l
        s2 == IF bump_restart
              THEN [s1 EXCEPT !.data.restart_lsn = s1.candidate_restart_lsn,
                              !.candidate_restart_lsn = InvalidXLogRecPtr,
                              !.candidate_restart_valid = InvalidXLogRecPtr]
              ELSE s1
    IN  [slot |-> s2, updated_xmin |-> bump_xmin,
         updated_restart |-> bump_restart]

\* LogicalConfirmReceivedLocation, the locked block of the branch taken
\* when a candidate is pending.
ConfirmLocked(s, l) ==
    LET s0 == [s EXCEPT !.data.confirmed_flush = l]
        bump_xmin ==
            /\ s0.candidate_xmin_lsn # InvalidXLogRecPtr
            /\ s0.candidate_xmin_lsn <= l
            /\ TransactionIdIsValid(s0.candidate_catalog_xmin)
            /\ s0.data.catalog_xmin # s0.candidate_catalog_xmin
        s1 == IF bump_xmin
              THEN [s0 EXCEPT !.data.catalog_xmin = s0.candidate_catalog_xmin,
                              !.candidate_catalog_xmin = InvalidTransactionId,
                              !.candidate_xmin_lsn = InvalidXLogRecPtr]
              ELSE s0
        bump_restart ==
            /\ s1.candidate_restart_valid # InvalidXLogRecPtr
            /\ s1.candidate_restart_valid <= l
        s2 == IF bump_restart
              THEN [s1 EXCEPT !.data.restart_lsn = s1.candidate_restart_lsn,
                              !.candidate_restart_lsn = InvalidXLogRecPtr,
                              !.candidate_restart_valid = InvalidXLogRecPtr]
              ELSE s1
    IN  [slot |-> s2, updated_xmin |-> bump_xmin,
         updated_restart |-> bump_restart]

\* LogicalConfirmReceivedLocation, the locked block of the else branch.
ConfirmElseLocked(s, l) == [s EXCEPT !.data.confirmed_flush = l]

\* The locked copy of the persisted xmin into the value vacuum reads.
CopyEffectiveLocked(s) ==
    [s EXCEPT !.effective_catalog_xmin = s.data.catalog_xmin]

\* The unlocked test that selects the branch of
\* LogicalConfirmReceivedLocation.
CandidatePending(s) ==
    \/ s.candidate_xmin_lsn # InvalidXLogRecPtr
    \/ s.candidate_restart_valid # InvalidXLogRecPtr

\* What ReplicationSlotSave writes: the slot's data part.
SavedImage(s) == s.data

\* LogicalConfirmReceivedLocation as a whole, every step succeeding: the slot
\* and its file after the call, from the slot s and the file d before it.
LogicalConfirmReceivedLocationResult(s, d, l) ==
    IF CandidatePending(s)
    THEN LET r == ConfirmLocked(s, l)
             saved == IF r.updated_xmin \/ r.updated_restart
                      THEN SavedImage(r.slot) ELSE d
             after == IF r.updated_xmin THEN CopyEffectiveLocked(r.slot)
                      ELSE r.slot
         IN  [slot |-> after, disk |-> saved]
    ELSE [slot |-> ConfirmElseLocked(s, l), disk |-> d]

\* Slot rebuilt from its file at startup: data as saved, the effective xmin
\* set from the saved catalog_xmin, no candidates.
RestoredSlot(d) ==
    [FreshSlot EXCEPT !.data = d, !.effective_catalog_xmin = d.catalog_xmin]

\* ---------------------------------------------------------------- actions
Entered(name, l, v) ==
    [op |-> name, lsn |-> l, val |-> v, entry |-> slot, at |-> "idle"]

\* The decoding context StartupDecodingContext returns: zeroed by palloc0,
\* the plugin's callbacks loaded, then the reader, the reorder buffer and
\* the snapshot builder allocated.
StartupDecodingContext(start_lsn) ==
    [NoContext EXCEPT !.context = "live",
                      !.callbacks = plugin,
                      !.reader = "allocated",
                      !.reorder = "allocated",
                      !.snapshot_builder = "allocated",
                      !.start_decoding_at = start_lsn]

NoBeginError == "output plugins have to register a begin callback"
NoChangeError == "output plugins have to register a change callback"
NoCommitError == "output plugins have to register a commit callback"

\* The test of commit_cb is missing.
LoadOutputPlugin_NoCommitTest(callbacks) ==
    IF ~callbacks.begin_cb THEN NoBeginError
    ELSE IF ~callbacks.change_cb THEN NoChangeError
    ELSE "none"

\* LoadOutputPlugin, after the plugin's init function has filled the
\* callback struct: the error it raises, or "none".
LoadOutputPlugin(callbacks) ==
    IF ~callbacks.begin_cb THEN NoBeginError
    ELSE IF ~callbacks.change_cb THEN NoChangeError
    ELSE IF ~callbacks.commit_cb THEN NoCommitError
    ELSE "none"

SlotIsPhysical(s) == s.data.database = InvalidOid
SlotIsLogical(s) == s.data.database # InvalidOid

PhysicalSlotError ==
    "cannot use physical replication slot for logical decoding"
OtherDatabaseError == "replication slot was not created in this database"
WriteTransactionError ==
    "cannot create logical replication slot in transaction that has performed writes"
CatalogsRemovedError == "replication slot requires catalogs removed by master"

\* The test of the slot's database is missing.
SlotUnsuitable_AnyDatabase(s) ==
    IF SlotIsPhysical(s) THEN PhysicalSlotError ELSE "none"

\* The tests both Create...DecodingContext functions make of the slot
\* before anything else: the error they raise, or "none".
SlotUnsuitable(s) ==
    IF SlotIsPhysical(s) THEN PhysicalSlotError
    ELSE IF s.data.database # MyDatabaseId THEN OtherDatabaseError
    ELSE "none"

\* The error CreateInitDecodingContext raises before it touches the slot.
CreateInitError ==
    IF SlotUnsuitable(slot) # "none" THEN SlotUnsuitable(slot)
    ELSE IF xact = "write" THEN WriteTransactionError
    ELSE "none"

\* UpdateOldestCatalogXmin records the catalog xmin the slots require as
\* the installation's oldest catalog xmin.
UpdateOldestCatalogXmin(required) == [oldestCatalogXmin |-> required]

\* No record is forced.
RecordOldestCatalogXmin_Never(cache, required) == cache

\* CreateInitDecodingContext, after the required xmin is recomputed: on a
\* primary without a record of the oldest catalog xmin, one is forced.
RecordOldestCatalogXmin(cache, required) ==
    IF ~RecoveryInProgress /\ ~TransactionIdIsValid(cache.oldestCatalogXmin)
    THEN UpdateOldestCatalogXmin(required)
    ELSE cache

\* The slot is saved before the xmin is published in it.
CreateInitDecodingContext_SaveFirst(reserved, safe_xid) ==
    /\ phase = "fresh"
    /\ pc = "idle"
    /\ CreateInitError = "none"
    /\ LoadOutputPlugin(plugin) = "none"
    /\ LET s1 == [slot EXCEPT !.data.restart_lsn = reserved]
           s2 == [s1 EXCEPT !.effective_catalog_xmin = safe_xid]
           s3 == [s2 EXCEPT !.data.catalog_xmin = s2.effective_catalog_xmin]
           cache == RecordOldestCatalogXmin(ShmemVariableCache,
                                            s3.effective_catalog_xmin)
       IN  /\ slot' = s3
           /\ required_xmin' = s3.effective_catalog_xmin
           /\ ShmemVariableCache' = cache
           /\ out' = [out EXCEPT !.created_without_record =
                        /\ ~RecoveryInProgress
                        /\ ~TransactionIdIsValid(
                               ShmemVariableCache.oldestCatalogXmin)]
           /\ disk' = SavedImage(s1)
    /\ ctx' = StartupDecodingContext(InvalidXLogRecPtr)
    /\ phase' = "init_startup"
    /\ call' = Entered("create", reserved, safe_xid)
    /\ UNCHANGED <<pc, mutex, EndRecPtr, locals, last_ack, adopted_at>>
    /\ UNCHANGED <<plugin, error_context_stack, cb, fault>>
    /\ UNCHANGED <<xact, RecoveryInProgress, procArray, standby>>

\* CreateInitDecodingContext on the fresh slot, up to the return of
\* StartupDecodingContext: ReplicationSlotReserveWal sets restart_lsn, the
\* oldest safe decoding xid becomes effective_catalog_xmin and catalog_xmin,
\* the required xmin is recomputed, the slot is saved, and the decoding
\* context is built.
CreateInitDecodingContext(reserved, safe_xid) ==
    /\ phase = "fresh"
    /\ pc = "idle"
    /\ CreateInitError = "none"
    /\ LoadOutputPlugin(plugin) = "none"
    /\ LET s1 == [slot EXCEPT !.data.restart_lsn = reserved]
           s2 == [s1 EXCEPT !.effective_catalog_xmin = safe_xid]
           s3 == [s2 EXCEPT !.data.catalog_xmin = s2.effective_catalog_xmin]
           cache == RecordOldestCatalogXmin(ShmemVariableCache,
                                            s3.effective_catalog_xmin)
       IN  /\ slot' = s3
           /\ required_xmin' = s3.effective_catalog_xmin
           /\ ShmemVariableCache' = cache
           /\ out' = [out EXCEPT !.created_without_record =
                        /\ ~RecoveryInProgress
                        /\ ~TransactionIdIsValid(
                               ShmemVariableCache.oldestCatalogXmin)]
           /\ disk' = SavedImage(s3)
    /\ ctx' = StartupDecodingContext(InvalidXLogRecPtr)
    /\ phase' = "init_startup"
    /\ call' = Entered("create", reserved, safe_xid)
    /\ UNCHANGED <<pc, mutex, EndRecPtr, locals, last_ack, adopted_at>>
    /\ UNCHANGED <<plugin, error_context_stack, cb, fault>>
    /\ UNCHANGED <<xact, RecoveryInProgress, procArray, standby>>

\* The same call when XLogReaderAllocate returns NULL: StartupDecodingContext
\* raises "out of memory" with the context half built, and the caller of
\* CreateInitDecodingContext never gets a context.
CreateInitOutOfMemory(reserved, safe_xid) ==
    /\ phase = "fresh"
    /\ pc = "idle"
    /\ CreateInitError = "none"
    /\ LoadOutputPlugin(plugin) = "none"
    /\ LET s1 == [slot EXCEPT !.data.restart_lsn = reserved]
           s2 == [s1 EXCEPT !.effective_catalog_xmin = safe_xid]
           s3 == [s2 EXCEPT !.data.catalog_xmin = s2.effective_catalog_xmin]
           cache == RecordOldestCatalogXmin(ShmemVariableCache,
                                            s3.effective_catalog_xmin)
       IN  /\ slot' = s3
           /\ required_xmin' = s3.effective_catalog_xmin
           /\ ShmemVariableCache' = cache
           /\ out' = [out EXCEPT !.created_without_record =
                        /\ ~RecoveryInProgress
                        /\ ~TransactionIdIsValid(
                               ShmemVariableCache.oldestCatalogXmin)]
           /\ disk' = SavedImage(s3)
    /\ ctx' = [NoContext EXCEPT !.context = "live", !.callbacks = plugin]
    /\ fault' = "out of memory"
    /\ phase' = "failed"
    /\ call' = Entered("create", reserved, safe_xid)
    /\ UNCHANGED <<pc, mutex, EndRecPtr, locals, last_ack, adopted_at>>
    /\ UNCHANGED <<plugin, error_context_stack, cb>>
    /\ UNCHANGED <<xact, RecoveryInProgress, procArray, standby>>

\* The same call under a plugin LoadOutputPlugin does not accept: the slot
\* is written and saved by then, and StartupDecodingContext raises the
\* error with nothing but the memory context and the callback struct there.
CreateInitLoadFails(reserved, safe_xid) ==
    /\ phase = "fresh"
    /\ pc = "idle"
    /\ CreateInitError = "none"
    /\ LoadOutputPlugin(plugin) # "none"
    /\ LET s1 == [slot EXCEPT !.data.restart_lsn = reserved]
           s2 == [s1 EXCEPT !.effective_catalog_xmin = safe_xid]
           s3 == [s2 EXCEPT !.data.catalog_xmin = s2.effective_catalog_xmin]
           cache == RecordOldestCatalogXmin(ShmemVariableCache,
                                            s3.effective_catalog_xmin)
       IN  /\ slot' = s3
           /\ required_xmin' = s3.effective_catalog_xmin
           /\ ShmemVariableCache' = cache
           /\ out' = [out EXCEPT !.created_without_record =
                        /\ ~RecoveryInProgress
                        /\ ~TransactionIdIsValid(
                               ShmemVariableCache.oldestCatalogXmin)]
           /\ disk' = SavedImage(s3)
    /\ ctx' = [NoContext EXCEPT !.context = "live", !.callbacks = plugin]
    /\ fault' = LoadOutputPlugin(plugin)
    /\ phase' = "failed"
    /\ call' = Entered("create", reserved, safe_xid)
    /\ UNCHANGED <<pc, mutex, EndRecPtr, locals, last_ack, adopted_at>>
    /\ UNCHANGED <<plugin, error_context_stack, cb>>
    /\ UNCHANGED <<xact, RecoveryInProgress, procArray, standby>>

\* CreateInitDecodingContext on a slot, or in a transaction, it does not
\* accept: the error is raised by the tests the function starts with.
CreateInitRejected ==
    /\ phase = "fresh"
    /\ pc = "idle"
    /\ CreateInitError # "none"
    /\ fault' = CreateInitError
    /\ phase' = "failed"
    /\ call' = Entered("create", InvalidXLogRecPtr, InvalidTransactionId)
    /\ UNCHANGED <<pc, slot, mutex, disk, required_xmin, EndRecPtr, locals,
                   last_ack, adopted_at>>
    /\ UNCHANGED <<plugin, ctx, error_context_stack, cb, out>>
    /\ UNCHANGED <<server, standby>>

\* The comparison with the slot's catalog_xmin is missing.
EnsureActiveLogicalSlotValid_NoFollowsTest(s) ==
    LET shmem_catalog_xmin == ShmemVariableCache.oldestCatalogXmin
    IN  IF ~TransactionIdIsValid(shmem_catalog_xmin)
        THEN CatalogsRemovedError
        ELSE "none"

\* An oldestCatalogXmin equal to the slot's catalog_xmin is refused too.
EnsureActiveLogicalSlotValid_EqualRefused(s) ==
    LET shmem_catalog_xmin == ShmemVariableCache.oldestCatalogXmin
    IN  IF \/ ~TransactionIdIsValid(shmem_catalog_xmin)
           \/ ~TransactionIdPrecedes(shmem_catalog_xmin, s.data.catalog_xmin)
        THEN CatalogsRemovedError
        ELSE "none"

\* EnsureActiveLogicalSlotValid: the error it raises, or "none".
EnsureActiveLogicalSlotValid(s) ==
    LET shmem_catalog_xmin == ShmemVariableCache.oldestCatalogXmin
    IN  IF \/ ~TransactionIdIsValid(shmem_catalog_xmin)
           \/ TransactionIdFollows(shmem_catalog_xmin, s.data.catalog_xmin)
        THEN CatalogsRemovedError
        ELSE "none"

\* The requested position is taken as it is.
StartLsn_AsRequested(s, start_lsn) == start_lsn

\* CreateDecodingContext: the position decoding starts at.
StartLsn(s, start_lsn) ==
    IF start_lsn = InvalidXLogRecPtr THEN s.data.confirmed_flush
    ELSE IF start_lsn < s.data.confirmed_flush THEN s.data.confirmed_flush
    ELSE start_lsn

\* The error CreateDecodingContext raises before it builds the context.
CreateDecodingContextError ==
    IF SlotUnsuitable(slot) # "none" THEN SlotUnsuitable(slot)
    ELSE EnsureActiveLogicalSlotValid(slot)

\* CreateDecodingContext on a slot that was used before, up to the return
\* of StartupDecodingContext.
CreateDecodingContext(start_lsn) ==
    /\ phase = "released"
    /\ pc = "idle"
    /\ CreateDecodingContextError = "none"
    /\ LoadOutputPlugin(plugin) = "none"
    /\ ctx' = StartupDecodingContext(StartLsn(slot, start_lsn))
    /\ phase' = "resume_startup"
    /\ call' = Entered("resume", start_lsn, InvalidTransactionId)
    /\ UNCHANGED <<pc, slot, mutex, disk, required_xmin, EndRecPtr, locals,
                   last_ack, adopted_at>>
    /\ UNCHANGED <<plugin, error_context_stack, cb, fault, out>>
    /\ UNCHANGED <<server, standby>>

\* CreateDecodingContext under a plugin LoadOutputPlugin does not accept:
\* StartupDecodingContext raises the error.
CreateDecodingContextLoadFails(start_lsn) ==
    /\ phase = "released"
    /\ pc = "idle"
    /\ CreateDecodingContextError = "none"
    /\ LoadOutputPlugin(plugin) # "none"
    /\ ctx' = [NoContext EXCEPT !.context = "live", !.callbacks = plugin]
    /\ fault' = LoadOutputPlugin(plugin)
    /\ phase' = "failed"
    /\ call' = Entered("resume", start_lsn, InvalidTransactionId)
    /\ UNCHANGED <<pc, slot, mutex, disk, required_xmin, EndRecPtr, locals,
                   last_ack, adopted_at>>
    /\ UNCHANGED <<plugin, error_context_stack, cb, out>>
    /\ UNCHANGED <<server, standby>>

\* CreateDecodingContext raises one of its errors.
CreateDecodingContextRejected(start_lsn) ==
    /\ phase = "released"
    /\ pc = "idle"
    /\ CreateDecodingContextError # "none"
    /\ fault' = CreateDecodingContextError
    /\ phase' = "failed"
    /\ call' = Entered("resume", start_lsn, InvalidTransactionId)
    /\ UNCHANGED <<pc, slot, mutex, disk, required_xmin, EndRecPtr, locals,
                   last_ack, adopted_at>>
    /\ UNCHANGED <<plugin, ctx, error_context_stack, cb, out>>
    /\ UNCHANGED <<server, standby>>

\* --------------------------------------------- callback wrappers, output
\* The head of every ..._cb_wrapper: push a frame on the error context
\* stack, set the output state, call the plugin's callback.
WrapperEnter(name, accept) ==
    /\ error_context_stack' = Append(error_context_stack, name)
    /\ ctx' = [ctx EXCEPT !.accept_writes = accept]
    /\ cb' = name

\* The driver holds a decoding context a Create...DecodingContext function
\* returned, and is not inside DecodingContextFindStartpoint.
Held == phase \in {"created", "stream"}

\* Both Create...DecodingContext functions call startup_cb_wrapper when the
\* plugin has a startup callback.
startup_cb_wrapper ==
    /\ phase \in {"init_startup", "resume_startup"}
    /\ cb = "none"
    /\ ctx.callbacks.startup_cb
    /\ out.startup = "no"
    /\ WrapperEnter("startup", FALSE)
    /\ out' = [out EXCEPT !.startup = "running"]
    /\ UNCHANGED <<phase, pc, slot, mutex, disk, required_xmin, EndRecPtr,
                   locals, history, plugin, fault>>
    /\ UNCHANGED <<server, standby>>

\* CreateInitDecodingContext returns the context: there was no startup
\* callback to call, or it has returned.
CreateInitReturn ==
    /\ phase = "init_startup"
    /\ cb = "none"
    /\ ~ctx.callbacks.startup_cb \/ out.startup = "returned"
    /\ phase' = "created"
    /\ pc' = "returned"
    /\ UNCHANGED <<slot, mutex, disk, required_xmin, EndRecPtr, locals,
                   history, session>>
    /\ UNCHANGED <<server, standby>>

\* CreateDecodingContext returns the context; the driver streams from it.
CreateDecodingContextReturn ==
    /\ phase = "resume_startup"
    /\ cb = "none"
    /\ ~ctx.callbacks.startup_cb \/ out.startup = "returned"
    /\ phase' = "stream"
    /\ pc' = "returned"
    /\ UNCHANGED <<slot, mutex, disk, required_xmin, EndRecPtr, locals,
                   history, session>>
    /\ UNCHANGED <<server, standby>>

\* The transactions the reorder buffer replays: first_lsn is the position
\* of the first record, final_lsn the beginning of the commit record and
\* end_lsn its end.  NoTxn stands for the NULL txn of a message outside a
\* transaction.
Txns ==
    {[xid |-> xid, first_lsn |-> 1, final_lsn |-> final_lsn,
      end_lsn |-> final_lsn + 1] :
        xid \in {FirstNormalTransactionId, FirstNormalTransactionId + 1},
        final_lsn \in {MaxLsn - 1}}
\* The transaction replayed where the session is followed from its
\* creation to its end.
SessionTxns == {txn \in Txns : txn.xid = FirstNormalTransactionId}
NoTxn ==
    [xid |-> InvalidTransactionId, first_lsn |-> InvalidXLogRecPtr,
     final_lsn |-> InvalidXLogRecPtr, end_lsn |-> InvalidXLogRecPtr]

\* The reorder buffer replays a transaction while streaming and calls the
\* wrappers StartupDecodingContext registered with it.
Replaying ==
    /\ phase = "stream"
    /\ pc = "idle"
    /\ cb = "none"

\* The head of the wrappers that open the output for writes: the frame is
\* pushed with report_location in it, and write_xid and write_location are
\* set for the output functions.
WriteWindow(name, txn, report_location, write_xid, write_location) ==
    /\ error_context_stack' = Append(error_context_stack, name)
    /\ out' = [out EXCEPT !.report_location = report_location,
                          !.txn = txn.xid]
    /\ ctx' = [ctx EXCEPT !.accept_writes = TRUE,
                          !.write_xid = write_xid,
                          !.write_location = write_location]
    /\ cb' = name

begin_cb_wrapper(txn) ==
    /\ Replaying
    /\ WriteWindow("begin", txn, txn.first_lsn, txn.xid, txn.first_lsn)
    /\ UNCHANGED <<phase, pc, slot, mutex, disk, required_xmin, EndRecPtr,
                   locals, history, plugin, fault>>
    /\ UNCHANGED <<server, standby>>

\* The frame and the output get the same position.
commit_cb_wrapper_ReportsEnd(txn) ==
    /\ Replaying
    /\ WriteWindow("commit", txn, txn.end_lsn, txn.xid, txn.end_lsn)
    /\ UNCHANGED <<phase, pc, slot, mutex, disk, required_xmin, EndRecPtr,
                   locals, history, plugin, fault>>
    /\ UNCHANGED <<server, standby>>

\* The frame gets final_lsn, the beginning of the commit record, the
\* output gets end_lsn, the end of it.
commit_cb_wrapper(txn) ==
    /\ Replaying
    /\ WriteWindow("commit", txn, txn.final_lsn, txn.xid, txn.end_lsn)
    /\ UNCHANGED <<phase, pc, slot, mutex, disk, required_xmin, EndRecPtr,
                   locals, history, plugin, fault>>
    /\ UNCHANGED <<server, standby>>

change_cb_wrapper(txn, change_lsn) ==
    /\ Replaying
    /\ WriteWindow("change", txn, change_lsn, txn.xid, change_lsn)
    /\ UNCHANGED <<phase, pc, slot, mutex, disk, required_xmin, EndRecPtr,
                   locals, history, plugin, fault>>
    /\ UNCHANGED <<server, standby>>

\* message_cb_wrapper returns at once, before it touches anything, when the
\* plugin has no message callback; txn is NULL for a message outside a
\* transaction.
message_cb_wrapper(txn, message_lsn) ==
    /\ Replaying
    /\ ctx.callbacks.message_cb
    /\ WriteWindow("message", txn, message_lsn,
                   IF txn # NoTxn THEN txn.xid ELSE InvalidTransactionId,
                   message_lsn)
    /\ UNCHANGED <<phase, pc, slot, mutex, disk, required_xmin, EndRecPtr,
                   locals, history, plugin, fault>>
    /\ UNCHANGED <<server, standby>>

\* The wrapper leaves the output state as the callback before it set it.
filter_by_origin_cb_wrapper_KeepsOutputState ==
    /\ Replaying
    /\ ctx.callbacks.filter_by_origin_cb
    /\ WrapperEnter("filter_by_origin", ctx.accept_writes)
    /\ UNCHANGED <<phase, pc, slot, mutex, disk, required_xmin, EndRecPtr,
                   locals, history, plugin, fault, out>>
    /\ UNCHANGED <<server, standby>>

\* The decoder calls filter_by_origin_cb_wrapper only for a plugin that has
\* the callback.
filter_by_origin_cb_wrapper ==
    /\ Replaying
    /\ ctx.callbacks.filter_by_origin_cb
    /\ WrapperEnter("filter_by_origin", FALSE)
    /\ UNCHANGED <<phase, pc, slot, mutex, disk, required_xmin, EndRecPtr,
                   locals, history, plugin, fault, out>>
    /\ UNCHANGED <<server, standby>>

\* The wrapper forgets to pop its frame.
CallbackReturns_NoPop ==
    /\ cb # "none"
    /\ cb' = "none"
    /\ out' = [out EXCEPT
                 !.startup = IF cb = "startup" THEN "returned" ELSE @,
                 !.report_location = InvalidXLogRecPtr,
                 !.txn = InvalidTransactionId]
    /\ UNCHANGED <<phase, pc, slot, mutex, disk, required_xmin, EndRecPtr,
                   locals, history, plugin, ctx, fault, error_context_stack>>
    /\ UNCHANGED <<server, standby>>

\* The plugin's callback returns and the tail of the wrapper pops the
\* frame: error_context_stack = errcallback.previous.
CallbackReturns ==
    /\ cb # "none"
    /\ error_context_stack'
          = SubSeq(error_context_stack, 1, Len(error_context_stack) - 1)
    /\ cb' = "none"
    /\ out' = [out EXCEPT
                 !.startup = IF cb = "startup" THEN "returned" ELSE @,
                 !.report_location = InvalidXLogRecPtr,
                 !.txn = InvalidTransactionId]
    /\ UNCHANGED <<phase, pc, slot, mutex, disk, required_xmin, EndRecPtr,
                   locals, history, plugin, ctx, fault>>
    /\ UNCHANGED <<server, standby>>

\* elog(ERROR): control leaves the function, and every wrapper above it, by
\* the error unwind; no statement after the call runs, so a wrapper's frame
\* stays where it is.  The session is over.
Raise(message) ==
    /\ fault' = message
    /\ cb' = "none"
    /\ phase' = "failed"
    /\ out' = [out EXCEPT
                 !.startup = IF cb = "startup" THEN "failed" ELSE @,
                 !.report_location = InvalidXLogRecPtr,
                 !.txn = InvalidTransactionId]
    /\ UNCHANGED <<pc, slot, mutex, disk, required_xmin, EndRecPtr, locals,
                   history, plugin, ctx, error_context_stack>>

\* The plugin's callback raises an error of its own.
CallbackRaises ==
    /\ cb # "none"
    /\ Raise("error in output plugin")
    /\ UNCHANGED <<server, standby>>

\* The context can be passed to the output functions: by the plugin from
\* inside a callback, or by the driver that holds it.
CanCallOutput ==
    /\ ctx.context = "live"
    /\ pc = "idle"
    /\ cb # "none" \/ Held

\* prepared_write is not cleared after the write.
OutputPluginWrite_StaysPrepared ==
    /\ CanCallOutput
    /\ out.write < MaxForwarded
    /\ IF ~ctx.prepared_write
       THEN Raise("OutputPluginPrepareWrite needs to be called before OutputPluginWrite")
       ELSE /\ out' = [out EXCEPT !.write = @ + 1,
                                   !.prepared = NothingOut.prepared]
            /\ UNCHANGED <<phase, pc, slot, mutex, disk, required_xmin,
                           EndRecPtr, locals, history, plugin,
                           error_context_stack, cb, fault, ctx>>
    /\ UNCHANGED <<server, standby>>

OutputPluginPrepareWrite ==
    /\ CanCallOutput
    /\ out.prepare_write < MaxForwarded
    /\ IF ~ctx.accept_writes
       THEN Raise("writes are only accepted in commit, begin and change callbacks")
       ELSE /\ out' = [out EXCEPT
                        !.prepare_write = @ + 1,
                        !.prepared = [xid |-> ctx.write_xid,
                                      location |-> ctx.write_location]]
            /\ ctx' = [ctx EXCEPT !.prepared_write = TRUE]
            /\ UNCHANGED <<phase, pc, slot, mutex, disk, required_xmin,
                           EndRecPtr, locals, history, plugin,
                           error_context_stack, cb, fault>>
    /\ UNCHANGED <<server, standby>>

OutputPluginWrite ==
    /\ CanCallOutput
    /\ out.write < MaxForwarded
    /\ IF ~ctx.prepared_write
       THEN Raise("OutputPluginPrepareWrite needs to be called before OutputPluginWrite")
       ELSE /\ out' = [out EXCEPT !.write = @ + 1,
                                   !.prepared = NothingOut.prepared]
            /\ ctx' = [ctx EXCEPT !.prepared_write = FALSE]
            /\ UNCHANGED <<phase, pc, slot, mutex, disk, required_xmin,
                           EndRecPtr, locals, history, plugin,
                           error_context_stack, cb, fault>>
    /\ UNCHANGED <<server, standby>>

\* FreeDecodingContext, first statement: the shutdown callback is called
\* when the plugin has one.
FreeDecodingContext ==
    /\ Held
    /\ pc = "idle"
    /\ cb = "none"
    /\ phase' = "closing"
    /\ IF ctx.callbacks.shutdown_cb
       THEN /\ WrapperEnter("shutdown", FALSE)
            /\ out' = [out EXCEPT !.shutdown = @ + 1]
       ELSE UNCHANGED <<error_context_stack, ctx, cb, out>>
    /\ UNCHANGED <<pc, slot, mutex, disk, required_xmin, EndRecPtr, locals,
                   history, plugin, fault>>
    /\ UNCHANGED <<server, standby>>

\* What the four release calls of FreeDecodingContext do to a context.
Released(c) ==
    [c EXCEPT !.reorder = "freed", !.snapshot_builder = "freed",
              !.reader = "freed", !.context = "deleted"]

CountReleases(o) ==
    [o EXCEPT !.released = [reorder |-> @.reorder + 1,
                            snapshot_builder |-> @.snapshot_builder + 1,
                            reader |-> @.reader + 1]]

\* FreeDecodingContext, the rest: ReorderBufferFree, FreeSnapshotBuilder,
\* XLogReaderFree, MemoryContextDelete.
FreeDecodingContextRelease ==
    /\ phase = "closing"
    /\ cb = "none"
    /\ ctx' = Released(ctx)
    /\ out' = CountReleases(out)
    /\ phase' = "closed"
    /\ UNCHANGED <<pc, slot, mutex, disk, required_xmin, EndRecPtr, locals,
                   history, plugin, error_context_stack, cb, fault>>
    /\ UNCHANGED <<server, standby>>

\* FreeDecodingContext on a context that was freed already.  The context is
\* read from deleted memory: either the access faults, or the old contents
\* are still there and every statement runs once more.
FreeDecodingContextAgain ==
    /\ phase = "closed"
    /\ \/ /\ fault' = "invalid memory access"
          /\ phase' = "failed"
          /\ UNCHANGED out
       \/ /\ out' = CountReleases([out EXCEPT !.shutdown =
                        IF ctx.callbacks.shutdown_cb THEN @ + 1 ELSE @])
          /\ phase' = "closed again"
          /\ UNCHANGED fault
    /\ UNCHANGED <<pc, slot, mutex, disk, required_xmin, EndRecPtr, locals,
                   history, plugin, ctx, error_context_stack, cb>>
    /\ UNCHANGED <<server, standby>>

\* The driver is done with the freed context; later it, or another backend
\* that acquires the slot, comes back to resume from the slot.
SessionOver ==
    /\ phase = "closed"
    /\ pc = "idle"
    /\ phase' = "released"
    /\ ctx' = NoContext
    /\ out' = [NothingOut EXCEPT !.created_without_record
                                    = out.created_without_record]
    /\ call' = NoCall
    /\ UNCHANGED <<pc, slot, mutex, disk, required_xmin, EndRecPtr, locals,
                   last_ack, adopted_at>>
    /\ UNCHANGED <<plugin, error_context_stack, cb, fault>>
    /\ UNCHANGED <<server, standby>>

\* The installation's oldest catalog xmin moves forward to x: on a primary
\* by vacuum, which never passes the catalog xmin the slots require; on a
\* standby by replay of what the primary did, whatever the local slots
\* require.
AdvanceOldestCatalogXmin(x) ==
    /\ pc = "idle"
    /\ phase # "failed"
    /\ \/ ~TransactionIdIsValid(ShmemVariableCache.oldestCatalogXmin)
       \/ TransactionIdFollows(x, ShmemVariableCache.oldestCatalogXmin)
    /\ \/ RecoveryInProgress
       \/ ~TransactionIdIsValid(required_xmin)
       \/ TransactionIdPrecedesOrEquals(x, required_xmin)
    /\ ShmemVariableCache' = UpdateOldestCatalogXmin(x)
    /\ UNCHANGED <<phase, pc, slot, mutex, disk, required_xmin, EndRecPtr,
                   locals, history, session>>
    /\ UNCHANGED <<xact, RecoveryInProgress, procArray, standby>>

\* ------------------------------------------- recovery conflicts on a standby
\* Everything of the backend that owns MyReplicationSlot.
backend ==
    <<phase, pc, slot, mutex, disk, required_xmin, EndRecPtr, locals, history,
      session, xact, RecoveryInProgress, procArray>>

\* The entry of the slot array the scan is at.
ScannedSlot == replication_slots[resolver.i]

\* The test is made without looking at active_pid.
ResolverCondition_OwnerNotTested(s, new_catalog_xmin) ==
    /\ s.in_use
    /\ TransactionIdIsValid(s.effective_catalog_xmin)
    /\ \/ ~TransactionIdIsValid(new_catalog_xmin)
       \/ TransactionIdPrecedes(s.effective_catalog_xmin, new_catalog_xmin)

\* The condition of the while loop.
ResolverCondition(s, new_catalog_xmin) ==
    /\ s.in_use
    /\ s.active_pid # 0
    /\ TransactionIdIsValid(s.effective_catalog_xmin)
    /\ \/ ~TransactionIdIsValid(new_catalog_xmin)
       \/ TransactionIdPrecedes(s.effective_catalog_xmin, new_catalog_xmin)

\* Replay has applied the new limit new_catalog_xmin and calls
\* ResolveRecoveryConflictWithLogicalDecoding: outside hot standby it
\* returns at once, otherwise it takes ReplicationSlotControlLock and starts
\* the scan at the first entry.
ResolveRecoveryConflictWithLogicalDecoding(new_catalog_xmin) ==
    /\ resolver.pc = "idle"
    /\ ShmemVariableCache' = [oldestCatalogXmin |-> new_catalog_xmin]
    /\ resolver' =
          IF ~InHotStandby
          THEN [IdleResolver EXCEPT !.pc = "returned",
                                    !.new_catalog_xmin = new_catalog_xmin]
          ELSE [IdleResolver EXCEPT !.pc = "scan",
                                    !.new_catalog_xmin = new_catalog_xmin,
                                    !.i = 1,
                                    !.lock = @ + 1]
    /\ UNCHANGED <<phase, pc, slot, mutex, disk, required_xmin, EndRecPtr,
                   locals, history, session, xact, RecoveryInProgress,
                   procArray>>
    /\ UNCHANGED <<InHotStandby, replication_slots, signals>>

\* The head of the for loop: past the last entry the lock is released and
\* the function returns; an entry that is not an in-use logical slot is
\* skipped; otherwise the while loop is entered.
ResolverNextSlot ==
    /\ resolver.pc = "scan"
    /\ resolver' =
          IF resolver.i > max_replication_slots
          THEN [resolver EXCEPT !.pc = "returned", !.lock = @ - 1]
          ELSE IF ~(ScannedSlot.in_use /\ SlotIsLogical(ScannedSlot))
          THEN [resolver EXCEPT !.i = @ + 1]
          ELSE [resolver EXCEPT !.pc = "test"]
    /\ UNCHANGED <<backend, ShmemVariableCache, InHotStandby,
                   replication_slots, signals>>

\* The condition of the while loop is evaluated, the lock held: the body is
\* entered, or the for loop goes on to the next entry.
ResolverTest ==
    /\ resolver.pc = "test"
    /\ resolver' =
          IF ResolverCondition(ScannedSlot, resolver.new_catalog_xmin)
          THEN [resolver EXCEPT !.pc = "capture"]
          ELSE [resolver EXCEPT !.pc = "scan", !.i = @ + 1]
    /\ UNCHANGED <<backend, ShmemVariableCache, InHotStandby,
                   replication_slots, signals>>

\* The lock is kept over the wait.
ResolverCapture_KeepsLock ==
    /\ resolver.pc = "capture"
    /\ resolver' = [resolver EXCEPT !.active_pid = ScannedSlot.active_pid,
                                    !.pc = "wait"]
    /\ UNCHANGED <<backend, ShmemVariableCache, InHotStandby,
                   replication_slots, signals>>

\* active_pid = slot->active_pid, a second read of the field after the
\* test, then LWLockRelease.
ResolverCapture ==
    /\ resolver.pc = "capture"
    /\ resolver' = [resolver EXCEPT !.active_pid = ScannedSlot.active_pid,
                                    !.lock = @ - 1,
                                    !.pc = "wait"]
    /\ UNCHANGED <<backend, ShmemVariableCache, InHotStandby,
                   replication_slots, signals>>

\* WaitExceedsMaxStandbyDelay: it returns true when the standby delay is
\* used up, and otherwise sleeps and returns false.
WaitExceedsMaxStandbyDelay(exceeded) ==
    /\ resolver.pc = "wait"
    /\ resolver' = [resolver EXCEPT !.pc = IF exceeded THEN "signal"
                                           ELSE "reacquire"]
    /\ UNCHANGED <<backend, ShmemVariableCache, InHotStandby,
                   replication_slots, signals>>

\* CancelLogicalDecodingSessionWithRecoveryConflict(active_pid): the signal
\* is pending for the backend with that pid, if there is one.
CancelLogicalDecodingSessionWithRecoveryConflict ==
    /\ resolver.pc = "signal"
    /\ signals' = signals \cup ({resolver.active_pid} \cap Pids)
    /\ resolver' = [resolver EXCEPT !.pc = "sleep"]
    /\ UNCHANGED <<backend, ShmemVariableCache, InHotStandby,
                   replication_slots>>

\* pg_usleep(10000)
ResolverSleep ==
    /\ resolver.pc = "sleep"
    /\ resolver' = [resolver EXCEPT !.pc = "reacquire"]
    /\ UNCHANGED <<backend, ShmemVariableCache, InHotStandby,
                   replication_slots, signals>>

\* LWLockAcquire at the end of the body; the while condition is next.
ResolverReacquire ==
    /\ resolver.pc = "reacquire"
    /\ resolver' = [resolver EXCEPT !.lock = @ + 1, !.pc = "test"]
    /\ UNCHANGED <<backend, ShmemVariableCache, InHotStandby,
                   replication_slots, signals>>

\* Replay goes on after the function has returned.
ResolverReturned ==
    /\ resolver.pc = "returned"
    /\ resolver' = IdleResolver
    /\ UNCHANGED <<backend, ShmemVariableCache, InHotStandby,
                   replication_slots, signals>>

\* The backends of the standby.  Slots are created and dropped under the
\* exclusive ReplicationSlotControlLock, so not while the startup process
\* holds it; they are acquired, released and advanced under their mutex.
owners == {replication_slots[j].active_pid : j \in 1..max_replication_slots}

\* The standby starts to accept connections.
EnableHotStandby ==
    /\ ~InHotStandby
    /\ resolver.pc = "idle"
    /\ InHotStandby' = TRUE
    /\ UNCHANGED <<backend, ShmemVariableCache, replication_slots, resolver,
                   signals>>

ReplicationSlotCreate(j, database) ==
    /\ InHotStandby
    /\ resolver.lock = 0
    /\ ~replication_slots[j].in_use
    /\ replication_slots' =
          [replication_slots EXCEPT
              ![j] = [FreeEntry EXCEPT !.in_use = TRUE,
                                       !.data.database = database]]
    /\ UNCHANGED <<backend, ShmemVariableCache, InHotStandby, resolver,
                   signals>>

ReplicationSlotDrop(j) ==
    /\ resolver.lock = 0
    /\ replication_slots[j].in_use
    /\ replication_slots[j].active_pid = 0
    /\ replication_slots' = [replication_slots EXCEPT ![j] = FreeEntry]
    /\ UNCHANGED <<backend, ShmemVariableCache, InHotStandby, resolver,
                   signals>>

\* Backend pid, which holds no slot, takes the slot.
ReplicationSlotAcquire(j, pid) ==
    /\ InHotStandby
    /\ replication_slots[j].in_use
    /\ replication_slots[j].active_pid = 0
    /\ pid \notin owners
    /\ replication_slots' = [replication_slots EXCEPT ![j].active_pid = pid]
    /\ UNCHANGED <<backend, ShmemVariableCache, InHotStandby, resolver,
                   signals>>

\* The owner gives the slot up of its own accord.
ReplicationSlotRelease(j) ==
    /\ replication_slots[j].active_pid # 0
    /\ replication_slots' = [replication_slots EXCEPT ![j].active_pid = 0]
    /\ UNCHANGED <<backend, ShmemVariableCache, InHotStandby, resolver,
                   signals>>

\* The owner moves the xmin its slot enforces forward.
AdvanceEffectiveCatalogXmin(j, xmin) ==
    /\ replication_slots[j].active_pid # 0
    /\ \/ ~TransactionIdIsValid(replication_slots[j].effective_catalog_xmin)
       \/ TransactionIdFollows(xmin,
                               replication_slots[j].effective_catalog_xmin)
    /\ replication_slots' =
          [replication_slots EXCEPT ![j].effective_catalog_xmin = xmin]
    /\ UNCHANGED <<backend, ShmemVariableCache, InHotStandby, resolver,
                   signals>>

\* Backend pid finds the recovery-conflict signal at its next safe point:
\* it ends its session and releases the slot it holds; a backend that
\* holds none has nothing to do.
HonourSignal(pid) ==
    /\ pid \in signals
    /\ signals' = signals \ {pid}
    /\ replication_slots' =
          [j \in 1..max_replication_slots |->
              IF replication_slots[j].active_pid = pid
              THEN [replication_slots[j] EXCEPT !.active_pid = 0]
              ELSE replication_slots[j]]
    /\ UNCHANGED <<backend, ShmemVariableCache, InHotStandby, resolver>>

\* DecodingContextFindStartpoint, one turn of the loop: XLogReadRecord
\* returns the next record.  The first read starts at restart_lsn, the
\* following ones continue after the previous record.  Processing the
\* record leaves the snapshot builder consistent or not.
FindStartpointRead(end) ==
    /\ UNCHANGED <<plugin, error_context_stack, cb, fault, out>>
    /\ phase \in {"created", "findstart"}
    /\ pc = "idle"
    /\ ~ctx.consistent
    /\ \E consistent \in BOOLEAN : ctx' = [ctx EXCEPT !.consistent = consistent]
    /\ LET startptr == IF phase = "created" THEN slot.data.restart_lsn
                       ELSE EndRecPtr
       IN  end > startptr
    /\ EndRecPtr' = end
    /\ phase' = "findstart"
    /\ UNCHANGED call
    /\ UNCHANGED <<pc, slot, mutex, disk, required_xmin, locals, last_ack,
                   adopted_at>>
    /\ UNCHANGED <<server, standby>>

\* XLogReadRecord reports an error or returns no record: elog(ERROR).
FindStartpointReadFails ==
    /\ phase \in {"created", "findstart"}
    /\ pc = "idle"
    /\ ~ctx.consistent
    /\ \E message \in {"could not read WAL", "no record found"} :
          Raise(message)
    /\ UNCHANGED <<server, standby>>

\* CHECK_FOR_INTERRUPTS at the end of a turn of the loop finds a pending
\* cancel or termination request and raises it.
FindStartpointInterrupted ==
    /\ phase = "findstart"
    /\ pc = "idle"
    /\ ~ctx.consistent
    /\ Raise("canceling statement due to user request")
    /\ UNCHANGED <<server, standby>>

\* The loop is left whatever the state of the snapshot builder.
FindStartpointDone_NotConsistent ==
    /\ UNCHANGED session
    /\ phase = "findstart"
    /\ pc = "idle"
    /\ slot' = [slot EXCEPT !.data.confirmed_flush = EndRecPtr]
    /\ phase' = "stream"
    /\ pc' = "returned"
    /\ call' = Entered("findstart", 0, 0)
    /\ UNCHANGED <<mutex, disk, required_xmin, EndRecPtr, locals, last_ack,
                   adopted_at>>
    /\ UNCHANGED <<server, standby>>

\* DecodingContextFindStartpoint: the snapshot builder is consistent after
\* the record just processed; the loop ends and confirmed_flush is set to
\* the end of that record (written without taking the mutex).
FindStartpointDone ==
    /\ UNCHANGED session
    /\ phase = "findstart"
    /\ pc = "idle"
    /\ ctx.consistent
    /\ slot' = [slot EXCEPT !.data.confirmed_flush = EndRecPtr]
    /\ phase' = "stream"
    /\ pc' = "returned"
    /\ call' = Entered("findstart", 0, 0)
    /\ UNCHANGED <<mutex, disk, required_xmin, EndRecPtr, locals, last_ack,
                   adopted_at>>
    /\ UNCHANGED <<server, standby>>

\* A record is being processed (catch-up or streaming) and may propose.
Decoding == phase \in {"findstart", "stream"}

\* LogicalIncreaseXminForSlot is entered and takes the mutex.
LogicalIncreaseXminForSlot(current_lsn, xmin) ==
    /\ UNCHANGED session
    /\ Decoding
    /\ pc = "idle"
    /\ ~mutex
    /\ mutex' = TRUE
    /\ arg' = [lsn |-> current_lsn, val |-> xmin]
    /\ updated' = FALSE
    /\ pc' = "xmin_locked"
    /\ call' = Entered("xmin", current_lsn, xmin)
    /\ UNCHANGED <<phase, slot, disk, required_xmin, EndRecPtr, lsn,
                   updated_xmin, updated_restart, last_ack, adopted_at>>
    /\ UNCHANGED <<server, standby>>

\* The mutex is not released after the locked block.
IncreaseXminBody_KeepsLock ==
    /\ UNCHANGED session
    /\ pc = "xmin_locked"
    /\ mutex
    /\ LET r == IncreaseXminLocked(slot, arg.lsn, arg.val)
       IN  /\ slot' = r.slot
           /\ updated' = r.updated
    /\ mutex' = TRUE
    /\ pc' = "increase_apply"
    /\ UNCHANGED <<phase, disk, required_xmin, EndRecPtr, lsn, updated_xmin,
                   updated_restart, arg, history>>
    /\ UNCHANGED <<server, standby>>

\* The locked block of LogicalIncreaseXminForSlot, then SpinLockRelease.
IncreaseXminBody ==
    /\ UNCHANGED session
    /\ pc = "xmin_locked"
    /\ mutex
    /\ LET r == IncreaseXminLocked(slot, arg.lsn, arg.val)
       IN  /\ slot' = r.slot
           /\ updated' = r.updated
    /\ mutex' = FALSE
    /\ pc' = "increase_apply"
    /\ UNCHANGED <<phase, disk, required_xmin, EndRecPtr, lsn, updated_xmin,
                   updated_restart, arg, history>>
    /\ UNCHANGED <<server, standby>>

\* LogicalIncreaseRestartDecodingForSlot is entered and takes the mutex.
LogicalIncreaseRestartDecodingForSlot(current_lsn, restart_lsn) ==
    /\ UNCHANGED session
    /\ Decoding
    /\ pc = "idle"
    /\ ~mutex
    /\ mutex' = TRUE
    /\ arg' = [lsn |-> current_lsn, val |-> restart_lsn]
    /\ updated' = FALSE
    /\ pc' = "restart_locked"
    /\ call' = Entered("restart", current_lsn, restart_lsn)
    /\ UNCHANGED <<phase, slot, disk, required_xmin, EndRecPtr, lsn,
                   updated_xmin, updated_restart, last_ack, adopted_at>>
    /\ UNCHANGED <<server, standby>>

\* The locked block of LogicalIncreaseRestartDecodingForSlot, then
\* SpinLockRelease.
IncreaseRestartBody ==
    /\ UNCHANGED session
    /\ pc = "restart_locked"
    /\ mutex
    /\ LET r == IncreaseRestartLocked(slot, arg.lsn, arg.val)
       IN  /\ slot' = r.slot
           /\ updated' = r.updated
    /\ mutex' = FALSE
    /\ pc' = "increase_apply"
    /\ UNCHANGED <<phase, disk, required_xmin, EndRecPtr, lsn, updated_xmin,
                   updated_restart, arg, history>>
    /\ UNCHANGED <<server, standby>>

\* LogicalConfirmReceivedLocation(l) up to its first SpinLockAcquire: the
\* unlocked look at the candidate fields chooses the branch, and either
\* branch starts by taking the mutex.
ConfirmBegin(l) ==
    /\ UNCHANGED session
    /\ ~mutex
    /\ mutex' = TRUE
    /\ lsn' = l
    /\ updated_xmin' = FALSE
    /\ updated_restart' = FALSE
    /\ pc' = IF CandidatePending(slot) THEN "confirm_locked"
             ELSE "confirm_else_locked"
    /\ UNCHANGED <<phase, slot, disk, required_xmin, EndRecPtr, arg, updated,
                   adopted_at>>
    /\ UNCHANGED <<server, standby>>

\* The tail of both LogicalIncrease...ForSlot functions: a candidate that
\* is already valid is applied by calling
\* LogicalConfirmReceivedLocation(slot->data.confirmed_flush).
IncreaseApply ==
    /\ pc = "increase_apply"
    /\ IF updated
       THEN ConfirmBegin(slot.data.confirmed_flush)
       ELSE /\ Return
            /\ UNCHANGED <<phase, slot, mutex, disk, required_xmin, EndRecPtr>>
            /\ UNCHANGED session
    /\ UNCHANGED <<call, last_ack>>
    /\ UNCHANGED <<server, standby>>

\* The driver reports that the consumer confirmed l.
ConfirmEnter(l) ==
    /\ phase = "stream"
    /\ pc = "idle"
    /\ ConfirmBegin(l)
    /\ call' = Entered("confirm", l, last_ack)

\* A driver that passes whatever position the consumer sent.
LogicalConfirmReceivedLocation(l) ==
    /\ ConfirmEnter(l)
    /\ UNCHANGED last_ack

\* A driver whose acknowledgements never go backwards: p1 <= p2 <= ...
OrderedConfirmReceivedLocation(l) ==
    /\ l >= last_ack
    /\ ConfirmEnter(l)
    /\ last_ack' = l

\* The locked block of the candidate branch, then SpinLockRelease.
ConfirmLockedBody ==
    /\ UNCHANGED session
    /\ pc = "confirm_locked"
    /\ mutex
    /\ LET r == ConfirmLocked(slot, lsn)
       IN  /\ slot' = r.slot
           /\ updated_xmin' = r.updated_xmin
           /\ updated_restart' = r.updated_restart
           /\ adopted_at' =
                [xmin |-> IF r.updated_xmin THEN slot.candidate_xmin_lsn
                          ELSE adopted_at.xmin,
                 restart |-> IF r.updated_restart
                             THEN slot.candidate_restart_valid
                             ELSE adopted_at.restart]
    /\ mutex' = FALSE
    /\ pc' = "confirm_save"
    /\ UNCHANGED <<phase, disk, required_xmin, EndRecPtr, lsn, arg, updated,
                   call, last_ack>>
    /\ UNCHANGED <<server, standby>>

\* The else branch: only confirmed_flush is set, under the mutex.
ConfirmElseBody ==
    /\ UNCHANGED session
    /\ pc = "confirm_else_locked"
    /\ mutex
    /\ slot' = ConfirmElseLocked(slot, lsn)
    /\ mutex' = FALSE
    /\ Return
    /\ UNCHANGED <<phase, disk, required_xmin, EndRecPtr, call, last_ack>>
    /\ UNCHANGED <<server, standby>>

\* ReplicationSlotMarkDirty and ReplicationSlotSave, when anything was
\* adopted.
ConfirmSave ==
    /\ UNCHANGED session
    /\ pc = "confirm_save"
    /\ disk' = IF updated_xmin \/ updated_restart THEN SavedImage(slot)
               ELSE disk
    /\ pc' = "confirm_effective"
    /\ UNCHANGED <<phase, slot, mutex, required_xmin, EndRecPtr, locals,
                   history>>
    /\ UNCHANGED <<server, standby>>

\* The save is skipped on failure and the call carries on.
ConfirmSaveFails_Ignored ==
    /\ pc = "confirm_save"
    /\ updated_xmin \/ updated_restart
    /\ out.save_failures < MaxSaveFailures
    /\ out' = [out EXCEPT !.save_failures = @ + 1]
    /\ UNCHANGED <<plugin, ctx, error_context_stack, cb, fault>>
    /\ pc' = "confirm_effective"
    /\ call' = [call EXCEPT !.op = "savefail", !.val = required_xmin]
    /\ UNCHANGED <<phase, slot, mutex, disk, required_xmin, EndRecPtr, locals,
                   last_ack, adopted_at>>
    /\ UNCHANGED <<server, standby>>

\* ReplicationSlotSave cannot write the slot: it raises an error, which
\* nothing in LogicalConfirmReceivedLocation catches, so the call is left at
\* this point.  The slot stays in shared memory as it is and is used again
\* by the session that resumes from it.
ConfirmSaveFails ==
    /\ pc = "confirm_save"
    /\ updated_xmin \/ updated_restart
    /\ out.save_failures < MaxSaveFailures
    /\ out' = [out EXCEPT !.save_failures = @ + 1]
    /\ UNCHANGED <<plugin, ctx, error_context_stack, cb, fault>>
    /\ Return
    /\ call' = [call EXCEPT !.op = "savefail", !.val = required_xmin]
    /\ UNCHANGED <<phase, slot, mutex, disk, required_xmin, EndRecPtr,
                   last_ack>>
    /\ UNCHANGED <<server, standby>>

\* if (updated_xmin): take the mutex for the copy into
\* effective_catalog_xmin; otherwise the function returns.
ConfirmEffective ==
    /\ UNCHANGED session
    /\ pc = "confirm_effective"
    /\ IF updated_xmin
       THEN /\ ~mutex
            /\ mutex' = TRUE
            /\ pc' = "confirm_effective_locked"
            /\ UNCHANGED <<locals, adopted_at>>
       ELSE /\ mutex' = mutex
            /\ Return
    /\ UNCHANGED <<phase, slot, disk, required_xmin, EndRecPtr, call,
                   last_ack>>
    /\ UNCHANGED <<server, standby>>

\* effective_catalog_xmin = data.catalog_xmin, then SpinLockRelease.
ConfirmEffectiveBody ==
    /\ UNCHANGED session
    /\ pc = "confirm_effective_locked"
    /\ mutex
    /\ slot' = CopyEffectiveLocked(slot)
    /\ mutex' = FALSE
    /\ pc' = "confirm_recompute"
    /\ UNCHANGED <<phase, disk, required_xmin, EndRecPtr, locals, history>>
    /\ UNCHANGED <<server, standby>>

\* The recomputation is left out.
ConfirmRecompute_NotInvoked ==
    /\ UNCHANGED session
    /\ pc = "confirm_recompute"
    /\ Return
    /\ UNCHANGED <<phase, slot, mutex, disk, required_xmin, EndRecPtr, call,
                   last_ack>>
    /\ UNCHANGED <<server, standby>>

\* ReplicationSlotsComputeRequiredXmin(false) and
\* ReplicationSlotsComputeRequiredLSN(), then the function returns.
ConfirmRecompute ==
    /\ UNCHANGED session
    /\ pc = "confirm_recompute"
    /\ required_xmin' = slot.effective_catalog_xmin
    /\ Return
    /\ UNCHANGED <<phase, slot, mutex, disk, EndRecPtr, call, last_ack>>
    /\ UNCHANGED <<server, standby>>

\* The caller of the function that returned goes on: the decoding loop is
\* ready for the next record or the next feedback message.
LoopBack ==
    /\ UNCHANGED session
    /\ pc = "returned"
    /\ pc' = "idle"
    /\ call' = NoCall
    /\ UNCHANGED <<phase, slot, mutex, disk, required_xmin, EndRecPtr, locals,
                   last_ack, adopted_at>>
    /\ UNCHANGED <<server, standby>>

\* The server crashes while the slot is in use and restarts: shared memory
\* and the backend are gone, the slot is rebuilt from its file, and a new
\* backend resumes streaming from it.
Crash ==
    /\ UNCHANGED session
    /\ phase = "stream"
    /\ slot' = RestoredSlot(disk)
    /\ mutex' = FALSE
    /\ required_xmin' = disk.catalog_xmin
    /\ Return
    /\ call' = [op |-> "crash", lsn |-> 0, val |-> 0, entry |-> slot,
                at |-> pc]
    /\ UNCHANGED <<phase, disk, EndRecPtr, last_ack>>
    /\ UNCHANGED <<server, standby>>

Next ==
    \/ \E reserved \in 1..(MaxLsn - 1), safe_xid \in Xids :
          CreateInitDecodingContext(reserved, safe_xid)
    \/ startup_cb_wrapper
    \/ CallbackReturns
    \/ CreateInitReturn
    \/ \E end \in Lsns : FindStartpointRead(end)
    \/ FindStartpointDone
    \/ \E current_lsn \in Lsns, xmin \in Xids :
          LogicalIncreaseXminForSlot(current_lsn, xmin)
    \/ IncreaseXminBody
    \/ \E current_lsn \in Lsns, restart_lsn \in Lsns :
          LogicalIncreaseRestartDecodingForSlot(current_lsn, restart_lsn)
    \/ IncreaseRestartBody
    \/ IncreaseApply
    \/ \E l \in Lsns : LogicalConfirmReceivedLocation(l)
    \/ ConfirmLockedBody
    \/ ConfirmElseBody
    \/ ConfirmSave
    \/ ConfirmEffective
    \/ ConfirmEffectiveBody
    \/ ConfirmRecompute
    \/ LoopBack

Spec == Init /\ [][Next]_vars

\* The same program under a driver whose acknowledgements are ordered.
NextOrdered ==
    \/ \E reserved \in 1..(MaxLsn - 1), safe_xid \in Xids :
          CreateInitDecodingContext(reserved, safe_xid)
    \/ startup_cb_wrapper
    \/ CallbackReturns
    \/ CreateInitReturn
    \/ \E end \in Lsns : FindStartpointRead(end)
    \/ FindStartpointDone
    \/ \E current_lsn \in Lsns, xmin \in Xids :
          LogicalIncreaseXminForSlot(current_lsn, xmin)
    \/ IncreaseXminBody
    \/ \E current_lsn \in Lsns, restart_lsn \in Lsns :
          LogicalIncreaseRestartDecodingForSlot(current_lsn, restart_lsn)
    \/ IncreaseRestartBody
    \/ IncreaseApply
    \/ \E l \in Lsns : OrderedConfirmReceivedLocation(l)
    \/ ConfirmLockedBody
    \/ ConfirmElseBody
    \/ ConfirmSave
    \/ ConfirmEffective
    \/ ConfirmEffectiveBody
    \/ ConfirmRecompute
    \/ LoopBack

SpecOrdered == Init /\ [][NextOrdered]_vars

NextCrash == Next \/ Crash

SpecCrash == Init /\ [][NextCrash]_vars

\* The decoding session from creation to its end: the callbacks, the output
\* functions and FreeDecodingContext, under every plugin.
NextSession ==
    \/ \E reserved \in 1..(MaxLsn - 1), safe_xid \in Xids :
          CreateInitDecodingContext(reserved, safe_xid)
    \/ \E reserved \in 1..(MaxLsn - 1), safe_xid \in Xids :
          CreateInitOutOfMemory(reserved, safe_xid)
    \/ startup_cb_wrapper
    \/ CreateInitReturn
    \/ \E end \in Lsns : FindStartpointRead(end)
    \/ FindStartpointDone
    \/ LoopBack
    \/ \E txn \in SessionTxns : begin_cb_wrapper(txn)
    \/ \E txn \in SessionTxns : change_cb_wrapper(txn, txn.first_lsn)
    \/ \E txn \in SessionTxns : commit_cb_wrapper(txn)
    \/ \E txn \in SessionTxns : message_cb_wrapper(txn, txn.first_lsn)
    \/ filter_by_origin_cb_wrapper
    \/ CallbackReturns
    \/ CallbackRaises
    \/ OutputPluginPrepareWrite
    \/ OutputPluginWrite
    \/ FreeDecodingContext
    \/ FreeDecodingContextRelease
    \/ FreeDecodingContextAgain

SpecSession == InitSession /\ [][NextSession]_vars

\* ------------------------------------------- CreateInitDecodingContext
\* ------------------------------------------- under ProcArrayLock
\* The xmin horizon a backend computes from the running transactions and
\* the catalog xmin the slots have published.
OldestXminWithSlots ==
    IF /\ TransactionIdIsValid(required_xmin)
       /\ TransactionIdPrecedes(required_xmin, procArray.oldest_xmin)
    THEN required_xmin
    ELSE procArray.oldest_xmin

\* What GetOldestSafeDecodingTransactionId returns to the backend that
\* holds ProcArrayLock: the oldest xid no horizon has passed yet.
GetOldestSafeDecodingTransactionId == OldestXminWithSlots

\* Another backend's transaction ends, under its own hold of
\* ProcArrayLock: the oldest xid still needed moves on.
ProcArrayEndTransaction ==
    /\ procArray.lock = "free"
    /\ procArray.oldest_xmin < MaxXid
    /\ procArray' = [procArray EXCEPT !.oldest_xmin = @ + 1]
    /\ UNCHANGED <<phase, pc, slot, mutex, disk, required_xmin, EndRecPtr,
                   locals, history, session>>
    /\ UNCHANGED <<xact, ShmemVariableCache, RecoveryInProgress, standby>>

\* Another backend (vacuum, a snapshot) computes a new xmin horizon, under
\* its own hold of ProcArrayLock.
GetOldestXmin ==
    /\ procArray.lock = "free"
    /\ procArray' = [procArray EXCEPT !.horizon = OldestXminWithSlots]
    /\ UNCHANGED <<phase, pc, slot, mutex, disk, required_xmin, EndRecPtr,
                   locals, history, session>>
    /\ UNCHANGED <<xact, ShmemVariableCache, RecoveryInProgress, standby>>

\* ReplicationSlotReserveWal, the statement before the locked block.
CreateInitReserveWal(reserved) ==
    /\ phase = "fresh"
    /\ pc = "idle"
    /\ slot' = [slot EXCEPT !.data.restart_lsn = reserved]
    /\ pc' = "create_reserved"
    /\ UNCHANGED <<phase, mutex, disk, required_xmin, EndRecPtr, locals,
                   history, session>>
    /\ UNCHANGED <<server, standby>>

\* The lock is not taken.
CreateInitLockProcArray_NotTaken ==
    /\ pc = "create_reserved"
    /\ pc' = "create_locked"
    /\ UNCHANGED <<phase, slot, mutex, disk, required_xmin, EndRecPtr, locals,
                   history, session>>
    /\ UNCHANGED <<server, standby>>

\* LWLockAcquire(ProcArrayLock, LW_EXCLUSIVE)
CreateInitLockProcArray ==
    /\ pc = "create_reserved"
    /\ procArray.lock = "free"
    /\ procArray' = [procArray EXCEPT !.lock = "exclusive"]
    /\ pc' = "create_locked"
    /\ UNCHANGED <<phase, slot, mutex, disk, required_xmin, EndRecPtr, locals,
                   history, session>>
    /\ UNCHANGED <<xact, ShmemVariableCache, RecoveryInProgress, standby>>

\* slot->effective_catalog_xmin = GetOldestSafeDecodingTransactionId()
CreateInitSetEffective ==
    /\ pc = "create_locked"
    /\ slot' = [slot EXCEPT !.effective_catalog_xmin =
                               GetOldestSafeDecodingTransactionId]
    /\ pc' = "create_effective_set"
    /\ UNCHANGED <<phase, mutex, disk, required_xmin, EndRecPtr, locals,
                   history, session>>
    /\ UNCHANGED <<server, standby>>

\* slot->data.catalog_xmin = slot->effective_catalog_xmin
CreateInitSetCatalog ==
    /\ pc = "create_effective_set"
    /\ slot' = [slot EXCEPT !.data.catalog_xmin = slot.effective_catalog_xmin]
    /\ pc' = "create_catalog_set"
    /\ UNCHANGED <<phase, mutex, disk, required_xmin, EndRecPtr, locals,
                   history, session>>
    /\ UNCHANGED <<server, standby>>

\* ReplicationSlotsComputeRequiredXmin(true)
CreateInitComputeRequiredXmin ==
    /\ pc = "create_catalog_set"
    /\ required_xmin' = slot.effective_catalog_xmin
    /\ pc' = "create_computed"
    /\ UNCHANGED <<phase, slot, mutex, disk, EndRecPtr, locals, history,
                   session>>
    /\ UNCHANGED <<server, standby>>

\* LWLockRelease(ProcArrayLock)
CreateInitUnlockProcArray ==
    /\ pc = "create_computed"
    /\ procArray' = [procArray EXCEPT !.lock = "free"]
    /\ pc' = "create_published"
    /\ UNCHANGED <<phase, slot, mutex, disk, required_xmin, EndRecPtr, locals,
                   history, session>>
    /\ UNCHANGED <<xact, ShmemVariableCache, RecoveryInProgress, standby>>

\* CreateInitDecodingContext from ReplicationSlotReserveWal to the release
\* of ProcArrayLock, statement by statement, next to backends whose
\* transactions end and that compute xmin horizons.
InitHorizon ==
    /\ InitSlot
    /\ plugin = FullPlugin
    /\ error_context_stack = <<>>
    /\ xact = "none"
    /\ ShmemVariableCache = [oldestCatalogXmin |-> FirstNormalTransactionId]
    /\ InitPrimary
    /\ procArray \in {[IdleProcArray EXCEPT !.oldest_xmin = oldest,
                                            !.horizon = horizon] :
                         oldest \in Xids,
                         horizon \in {InvalidTransactionId} \cup Xids}
    /\ \/ procArray.horizon = InvalidTransactionId
       \/ TransactionIdPrecedesOrEquals(procArray.horizon,
                                        procArray.oldest_xmin)

NextHorizon ==
    \/ ProcArrayEndTransaction
    \/ GetOldestXmin
    \/ \E reserved \in 1..(MaxLsn - 1) : CreateInitReserveWal(reserved)
    \/ CreateInitLockProcArray
    \/ CreateInitSetEffective
    \/ CreateInitSetCatalog
    \/ CreateInitComputeRequiredXmin
    \/ CreateInitUnlockProcArray

SpecHorizon == InitHorizon /\ [][NextHorizon]_vars

\* The callbacks and the output functions alone, under the plugin that has
\* every callback: every transaction of Txns is replayed, changes at both
\* ends of a transaction, and messages inside and outside a transaction.
InitDispatch ==
    /\ InitSlot
    /\ InitServer
    /\ plugin = FullPlugin
    /\ error_context_stack = <<>>

NextDispatch ==
    \/ \E reserved \in 1..(MaxLsn - 1), safe_xid \in Xids :
          CreateInitDecodingContext(reserved, safe_xid)
    \/ startup_cb_wrapper
    \/ CreateInitReturn
    \/ \E end \in Lsns : FindStartpointRead(end)
    \/ FindStartpointDone
    \/ LoopBack
    \/ \E txn \in Txns : begin_cb_wrapper(txn)
    \/ \E txn \in Txns :
          \E change_lsn \in {txn.first_lsn, txn.final_lsn} :
              change_cb_wrapper(txn, change_lsn)
    \/ \E txn \in Txns : commit_cb_wrapper(txn)
    \/ \E txn \in Txns \cup {NoTxn}, message_lsn \in {1, MaxLsn} :
          message_cb_wrapper(txn, message_lsn)
    \/ filter_by_origin_cb_wrapper
    \/ CallbackReturns
    \/ CallbackRaises
    \/ OutputPluginPrepareWrite
    \/ OutputPluginWrite

SpecDispatch == InitDispatch /\ [][NextDispatch]_vars

\* The same program on storage that can fail to write the slot, and a
\* server that can crash.
NextSaveFail == Next \/ ConfirmSaveFails \/ Crash

SpecSaveFail == Init /\ [][NextSaveFail]_vars

\* The data of a slot that was used before: it has a restart position, a
\* position confirmed at or after it, and a catalog xmin.
UsedSlotData ==
    {d \in [database : Databases, confirmed_flush : Lsns, restart_lsn : Lsns,
            catalog_xmin : Xids] : d.restart_lsn <= d.confirmed_flush}

\* The start of a session is followed on every slot a backend can hold:
\* unused or used before, of any database or physical; in or outside a
\* transaction; on a primary or a standby, with or without a record of the
\* oldest catalog xmin; under plugins with and without the optional and
\* the mandatory callbacks.
InitStart ==
    /\ \/ /\ phase = "fresh"
          /\ \E d \in Databases : slot = [FreshSlot EXCEPT !.data.database = d]
       \/ /\ phase = "released"
          /\ \E d \in UsedSlotData : slot = RestoredSlot(d)
    /\ disk = slot.data
    /\ required_xmin = slot.effective_catalog_xmin
    /\ pc = "idle"
    /\ mutex = FALSE
    /\ EndRecPtr = InvalidXLogRecPtr
    /\ lsn = InvalidXLogRecPtr
    /\ updated_xmin = FALSE
    /\ updated_restart = FALSE
    /\ arg = [lsn |-> 0, val |-> 0]
    /\ updated = FALSE
    /\ call = NoCall
    /\ last_ack = InvalidXLogRecPtr
    /\ adopted_at = [xmin |-> 0, restart |-> 0]
    /\ ctx = NoContext
    /\ cb = "none"
    /\ fault = "none"
    /\ out = NothingOut
    /\ error_context_stack = <<>>
    /\ plugin \in LoadedPlugins
    /\ xact \in {"none", "read", "write"}
    /\ procArray = IdleProcArray
    /\ ShmemVariableCache
          \in [oldestCatalogXmin : {InvalidTransactionId} \cup Xids]
    /\ RecoveryInProgress \in BOOLEAN
    /\ InHotStandby = FALSE
    /\ replication_slots = [i \in 1..max_replication_slots |-> FreeEntry]
    /\ resolver = IdleResolver
    /\ signals = {}

\* The start of a session: both Create...DecodingContext functions with
\* their errors, DecodingContextFindStartpoint with its errors, the end of
\* the session and its resumption, while the installation's oldest catalog
\* xmin moves.
NextStart ==
    \/ \E reserved \in 1..(MaxLsn - 1), safe_xid \in Xids :
          CreateInitDecodingContext(reserved, safe_xid)
    \/ \E reserved \in 1..(MaxLsn - 1), safe_xid \in Xids :
          CreateInitLoadFails(reserved, safe_xid)
    \/ CreateInitRejected
    \/ startup_cb_wrapper
    \/ CallbackReturns
    \/ CallbackRaises
    \/ CreateInitReturn
    \/ \E end \in Lsns : FindStartpointRead(end)
    \/ FindStartpointReadFails
    \/ FindStartpointInterrupted
    \/ FindStartpointDone
    \/ LoopBack
    \/ FreeDecodingContext
    \/ FreeDecodingContextRelease
    \/ SessionOver
    \/ \E start_lsn \in {InvalidXLogRecPtr} \cup Lsns :
          CreateDecodingContext(start_lsn)
    \/ \E start_lsn \in {InvalidXLogRecPtr} \cup Lsns :
          CreateDecodingContextRejected(start_lsn)
    \/ \E start_lsn \in {InvalidXLogRecPtr} \cup Lsns :
          CreateDecodingContextLoadFails(start_lsn)
    \/ CreateDecodingContextReturn
    \/ \E x \in Xids : AdvanceOldestCatalogXmin(x)

SpecStart == InitStart /\ [][NextStart]_vars

\* A standby before it accepts connections: no slot in the array yet, the
\* startup process outside the resolver.
InitResolver ==
    /\ InitSlot
    /\ plugin = FullPlugin
    /\ error_context_stack = <<>>
    /\ xact = "none"
    /\ ShmemVariableCache = [oldestCatalogXmin |-> InvalidTransactionId]
    /\ RecoveryInProgress = TRUE
    /\ procArray = IdleProcArray
    /\ InHotStandby = FALSE
    /\ replication_slots = [i \in 1..max_replication_slots |-> FreeEntry]
    /\ resolver = IdleResolver
    /\ signals = {}

\* The startup process running the resolver.
ResolverStep ==
    \/ ResolverNextSlot
    \/ ResolverTest
    \/ ResolverCapture
    \/ CancelLogicalDecodingSessionWithRecoveryConflict
    \/ ResolverSleep
    \/ ResolverReacquire
    \/ ResolverReturned

\* The standby: replay calls the resolver with each new limit while the
\* backends create, take, advance, release and drop slots.
NextResolver ==
    \/ \E new_catalog_xmin \in {InvalidTransactionId} \cup Xids :
          ResolveRecoveryConflictWithLogicalDecoding(new_catalog_xmin)
    \/ ResolverStep
    \/ \E exceeded \in BOOLEAN : WaitExceedsMaxStandbyDelay(exceeded)
    \/ EnableHotStandby
    \/ \E j \in 1..max_replication_slots, database \in {InvalidOid, MyDatabaseId} :
          ReplicationSlotCreate(j, database)
    \/ \E j \in 1..max_replication_slots : ReplicationSlotDrop(j)
    \/ \E j \in 1..max_replication_slots, pid \in Pids :
          ReplicationSlotAcquire(j, pid)
    \/ \E j \in 1..max_replication_slots : ReplicationSlotRelease(j)
    \/ \E j \in 1..max_replication_slots, xmin \in Xids :
          AdvanceEffectiveCatalogXmin(j, xmin)
    \/ \E pid \in Pids : HonourSignal(pid)

SpecResolver == InitResolver /\ [][NextResolver]_vars

\* The standby under fair scheduling: the startup process keeps running,
\* the standby delay is used up in the end, and a signalled backend gets to
\* its next safe point.
SpecResolverFair ==
    /\ InitResolver
    /\ [][NextResolver]_vars
    /\ WF_vars(ResolverStep)
    /\ WF_vars(\E exceeded \in BOOLEAN : WaitExceedsMaxStandbyDelay(exceeded))
    /\ SF_vars(WaitExceedsMaxStandbyDelay(TRUE))
    /\ \A pid \in Pids : WF_vars(HonourSignal(pid))

\* ================================================================ claims
\* Positions of the backend inside LogicalConfirmReceivedLocation.
ConfirmPcs ==
    {"confirm_locked", "confirm_else_locked", "confirm_save",
     "confirm_effective", "confirm_effective_locked", "confirm_recompute"}

\* A call of the named function has just returned; call holds its
\* arguments and the slot as it was on entry.
Returned(name) == pc = "returned" /\ call.op = name

XminPending(s) == s.candidate_xmin_lsn # InvalidXLogRecPtr
RestartPending(s) == s.candidate_restart_valid # InvalidXLogRecPtr

\* The proposal of the returned call moved its track's bound forward.
ForwardXmin == ~TransactionIdPrecedesOrEquals(call.val, call.entry.data.catalog_xmin)
ForwardRestart == call.val > call.entry.data.restart_lsn

XminCandidateKept ==
    /\ slot.candidate_xmin_lsn = call.entry.candidate_xmin_lsn
    /\ slot.candidate_catalog_xmin = call.entry.candidate_catalog_xmin

RestartCandidateKept ==
    /\ slot.candidate_restart_valid = call.entry.candidate_restart_valid
    /\ slot.candidate_restart_lsn = call.entry.candidate_restart_lsn

XminCandidateCleared ==
    /\ slot.candidate_xmin_lsn = InvalidXLogRecPtr
    /\ slot.candidate_catalog_xmin = InvalidTransactionId

RestartCandidateCleared ==
    /\ slot.candidate_restart_valid = InvalidXLogRecPtr
    /\ slot.candidate_restart_lsn = InvalidXLogRecPtr

\* C1: no premature adoption.  Whenever a step of the created slot changes
\* an enforced field (catalog_xmin, restart_lsn, effective_catalog_xmin),
\* the new value is the value of a candidate whose trigger position is at
\* or below the confirmed_flush of the state in which the value becomes
\* enforced.
C1_NoPrematureAdoption ==
    [][ phase # "fresh" =>
        /\ slot'.data.catalog_xmin # slot.data.catalog_xmin =>
              /\ XminPending(slot)
              /\ slot'.data.catalog_xmin = slot.candidate_catalog_xmin
              /\ slot.candidate_xmin_lsn <= slot'.data.confirmed_flush
        /\ slot'.data.restart_lsn # slot.data.restart_lsn =>
              /\ RestartPending(slot)
              /\ slot'.data.restart_lsn = slot.candidate_restart_lsn
              /\ slot.candidate_restart_valid <= slot'.data.confirmed_flush
        /\ slot'.effective_catalog_xmin # slot.effective_catalog_xmin =>
              /\ slot'.effective_catalog_xmin = slot.data.catalog_xmin
              /\ adopted_at.xmin # InvalidXLogRecPtr
              /\ adopted_at.xmin <= slot'.data.confirmed_flush
      ]_vars

\* C1 witness: an acknowledgement found an xmin candidate whose trigger was
\* above confirmed_flush on entry, and returned with that candidate's value
\* enforced.
C1_Witness ==
    /\ Returned("confirm")
    /\ XminPending(call.entry)
    /\ call.entry.candidate_xmin_lsn > call.entry.data.confirmed_flush
    /\ slot.effective_catalog_xmin = call.entry.candidate_catalog_xmin
    /\ slot.effective_catalog_xmin # call.entry.effective_catalog_xmin
    /\ slot.data.confirmed_flush >= call.entry.candidate_xmin_lsn

\* C2: durability before enforcement.  In every state inside
\* LogicalConfirmReceivedLocation, effective_catalog_xmin does not follow
\* the catalog_xmin that was last saved.
C2_EffectiveAfterPersist ==
    pc \in ConfirmPcs =>
        TransactionIdPrecedesOrEquals(slot.effective_catalog_xmin,
                                      disk.catalog_xmin)

\* C2 witness: inside the call, the new catalog_xmin has been saved and
\* effective_catalog_xmin has not been advanced to it yet.
C2_Witness ==
    /\ pc = "confirm_effective"
    /\ updated_xmin
    /\ disk.catalog_xmin = slot.data.catalog_xmin
    /\ TransactionIdPrecedes(slot.effective_catalog_xmin, disk.catalog_xmin)

\* C3: crash safety.  After a crash at any point, the effective_catalog_xmin
\* of the restored slot does not precede the one in force before the crash;
\* and when the crash hit after the save and before the copy, it is the
\* catalog_xmin the interrupted call was about to enforce.
C3_CrashSafe ==
    Returned("crash") =>
        /\ ~TransactionIdPrecedes(slot.effective_catalog_xmin,
                                  call.entry.effective_catalog_xmin)
        /\ call.at \in {"confirm_effective", "confirm_effective_locked"} =>
              slot.effective_catalog_xmin = call.entry.data.catalog_xmin

\* C3 witness: a crash between the save of a new catalog_xmin and its copy
\* into effective_catalog_xmin; the restored slot enforces the new value.
C3_Witness ==
    /\ Returned("crash")
    /\ call.at = "confirm_effective"
    /\ call.entry.effective_catalog_xmin # call.entry.data.catalog_xmin
    /\ slot.effective_catalog_xmin = call.entry.data.catalog_xmin

\* C4: confirmed_flush is never decreased by any step.
C4_ConfirmedNeverDecreases ==
    [][slot'.data.confirmed_flush >= slot.data.confirmed_flush]_vars

\* C5: monotonicity under ordered acknowledgements.  With acknowledgement
\* positions p1 <= p2 <= ..., every call that returns after the first
\* acknowledgement leaves confirmed_flush at or above the value the call
\* before it left, and no step makes effective_catalog_xmin precede its
\* previous value.
C5_Monotone ==
    /\ [](/\ (Returned("confirm") /\ call.val # InvalidXLogRecPtr) =>
                slot.data.confirmed_flush >= call.entry.data.confirmed_flush
          /\ (Returned("xmin") \/ Returned("restart")) =>
                slot.data.confirmed_flush >= call.entry.data.confirmed_flush)
    /\ [][~TransactionIdPrecedes(slot'.effective_catalog_xmin,
                                 slot.effective_catalog_xmin)]_vars

\* C5 witness: a second or later ordered acknowledgement raised
\* confirmed_flush and advanced effective_catalog_xmin.
C5_Witness ==
    /\ Returned("confirm")
    /\ call.val # InvalidXLogRecPtr
    /\ slot.data.confirmed_flush > call.entry.data.confirmed_flush
    /\ TransactionIdFollows(slot.effective_catalog_xmin,
                            call.entry.effective_catalog_xmin)

\* C6: every change of restart_lsn on the created slot strictly increases
\* it.
C6_RestartOnlyAdvances ==
    [][(phase # "fresh" /\ slot'.data.restart_lsn # slot.data.restart_lsn)
          => slot'.data.restart_lsn > slot.data.restart_lsn]_vars

\* C7: a proposal that does not move its track's bound forward leaves every
\* field of the slot as it was.
C7_NonForwardIsNoOp ==
    /\ (Returned("xmin") /\ ~ForwardXmin) => slot = call.entry
    /\ (Returned("restart") /\ ~ForwardRestart) => slot = call.entry

\* C8 as stated: a proposal made while a candidate is pending on its track
\* leaves that candidate's value and trigger as they were, whatever the
\* proposed pair.
C8_PendingNeverOverwritten ==
    /\ (Returned("xmin") /\ XminPending(call.entry)) => XminCandidateKept
    /\ (Returned("restart") /\ RestartPending(call.entry))
          => RestartCandidateKept

\* C8 as amended: a proposal made while a candidate is pending on its track
\* leaves that candidate as it was when the proposed value does not move
\* the bound forward or the proposed trigger is above confirmed_flush.
C8_PendingKeptUnlessImmediate ==
    /\ ( /\ Returned("xmin")
         /\ XminPending(call.entry)
         /\ (~ForwardXmin \/ call.lsn > call.entry.data.confirmed_flush) )
          => XminCandidateKept
    /\ ( /\ Returned("restart")
         /\ RestartPending(call.entry)
         /\ (~ForwardRestart \/ call.lsn > call.entry.data.confirmed_flush) )
          => RestartCandidateKept

\* C8 witness: a forward-moving xmin proposal, different from the pending
\* candidate and with a trigger above confirmed_flush, returned and the
\* pending candidate is still there.
C8_Witness ==
    /\ Returned("xmin")
    /\ XminPending(call.entry)
    /\ call.entry.candidate_xmin_lsn > call.entry.data.confirmed_flush
    /\ ForwardXmin
    /\ call.lsn > call.entry.data.confirmed_flush
    /\ call.val # call.entry.candidate_catalog_xmin
    /\ call.lsn # call.entry.candidate_xmin_lsn
    /\ XminCandidateKept

\* C9: a forward-moving proposal whose trigger is at or below
\* confirmed_flush is adopted by the call itself: on return the enforced
\* value is the proposed one, the slot is saved, the track's candidate
\* fields are clear and confirmed_flush is what it was.
C9_ImmediateAdoption ==
    /\ ( /\ Returned("xmin")
         /\ ForwardXmin
         /\ call.lsn <= call.entry.data.confirmed_flush )
          => /\ slot.data.catalog_xmin = call.val
             /\ slot.effective_catalog_xmin = call.val
             /\ disk = slot.data
             /\ XminCandidateCleared
             /\ slot.data.confirmed_flush = call.entry.data.confirmed_flush
    /\ ( /\ Returned("restart")
         /\ ForwardRestart
         /\ call.lsn <= call.entry.data.confirmed_flush )
          => /\ slot.data.restart_lsn = call.val
             /\ disk = slot.data
             /\ RestartCandidateCleared
             /\ slot.data.confirmed_flush = call.entry.data.confirmed_flush

\* C9 witness: an xmin proposal whose trigger equals confirmed_flush
\* returned with its value enforced, while another candidate had been
\* pending.
C9_Witness ==
    /\ Returned("xmin")
    /\ ForwardXmin
    /\ call.lsn = call.entry.data.confirmed_flush
    /\ slot.effective_catalog_xmin = call.val
    /\ call.entry.effective_catalog_xmin # call.val
    /\ disk.catalog_xmin = call.val

\* C10: an acknowledgement adopts exactly the pending candidates whose
\* trigger is at or below the acknowledged position and clears them; a
\* candidate with a higher trigger stays as it was and its enforced value
\* is unchanged.
C10_AdoptsExactlyReached ==
    Returned("confirm") =>
        /\ IF XminPending(call.entry) /\ call.entry.candidate_xmin_lsn <= call.lsn
           THEN /\ slot.data.catalog_xmin = call.entry.candidate_catalog_xmin
                /\ slot.effective_catalog_xmin
                      = call.entry.candidate_catalog_xmin
                /\ XminCandidateCleared
           ELSE /\ slot.data.catalog_xmin = call.entry.data.catalog_xmin
                /\ slot.effective_catalog_xmin
                      = call.entry.effective_catalog_xmin
                /\ XminCandidateKept
        /\ IF /\ RestartPending(call.entry)
              /\ call.entry.candidate_restart_valid <= call.lsn
           THEN /\ slot.data.restart_lsn = call.entry.candidate_restart_lsn
                /\ RestartCandidateCleared
           ELSE /\ slot.data.restart_lsn = call.entry.data.restart_lsn
                /\ RestartCandidateKept

\* C10 witness: the acknowledgement of exactly the trigger position of a
\* pending xmin candidate, above the previous confirmed_flush, returned
\* with the candidate enforced, while a restart candidate with a higher
\* trigger stayed pending.
C10_Witness ==
    /\ Returned("confirm")
    /\ XminPending(call.entry)
    /\ call.entry.candidate_xmin_lsn = call.lsn
    /\ call.lsn > call.entry.data.confirmed_flush
    /\ slot.effective_catalog_xmin = call.entry.candidate_catalog_xmin
    /\ slot.effective_catalog_xmin # call.entry.effective_catalog_xmin
    /\ RestartPending(call.entry)
    /\ call.entry.candidate_restart_valid > call.lsn
    /\ RestartPending(slot)

\* C11: idempotence.  When an acknowledgement of position l has returned,
\* a second complete LogicalConfirmReceivedLocation(l) leaves the slot (all
\* fields, candidates included) and its file exactly as the first left them.
C11_AckIdempotent ==
    Returned("confirm") =>
        LogicalConfirmReceivedLocationResult(slot, disk, call.lsn)
            = [slot |-> slot, disk |-> disk]

\* C11 witness: the first acknowledgement adopted candidates of both tracks
\* and moved confirmed_flush; the second has nothing left to do.
C11_Witness ==
    /\ Returned("confirm")
    /\ XminPending(call.entry)
    /\ RestartPending(call.entry)
    /\ call.entry.candidate_xmin_lsn <= call.lsn
    /\ call.entry.candidate_restart_valid <= call.lsn
    /\ slot.data.catalog_xmin # call.entry.data.catalog_xmin
    /\ slot.data.restart_lsn # call.entry.data.restart_lsn
    /\ slot.data.confirmed_flush # call.entry.data.confirmed_flush
    /\ LogicalConfirmReceivedLocationResult(slot, disk, call.lsn).slot = slot

\* The step is the locked block of an acknowledgement that adopts the
\* pending candidate of the track.
AdoptsXmin ==
    /\ pc = "confirm_locked"
    /\ slot.candidate_xmin_lsn <= lsn
    /\ slot'.data.catalog_xmin = slot.candidate_catalog_xmin
    /\ ~XminPending(slot')

AdoptsRestart ==
    /\ pc = "confirm_locked"
    /\ slot.candidate_restart_valid <= lsn
    /\ slot'.data.restart_lsn = slot.candidate_restart_lsn
    /\ ~RestartPending(slot')

\* The step is the locked block of a forward-moving proposal whose trigger
\* is at or below confirmed_flush; it puts its own pair in the candidate
\* fields.
ReplacedByImmediateXmin ==
    /\ pc = "xmin_locked"
    /\ arg.lsn <= slot.data.confirmed_flush
    /\ ~TransactionIdPrecedesOrEquals(arg.val, slot.data.catalog_xmin)
    /\ slot'.candidate_xmin_lsn = arg.lsn
    /\ slot'.candidate_catalog_xmin = arg.val

ReplacedByImmediateRestart ==
    /\ pc = "restart_locked"
    /\ arg.lsn <= slot.data.confirmed_flush
    /\ arg.val > slot.data.restart_lsn
    /\ slot'.candidate_restart_valid = arg.lsn
    /\ slot'.candidate_restart_lsn = arg.val

XminCandidateChanges ==
    <<slot.candidate_xmin_lsn, slot.candidate_catalog_xmin>>'
        # <<slot.candidate_xmin_lsn, slot.candidate_catalog_xmin>>

RestartCandidateChanges ==
    <<slot.candidate_restart_valid, slot.candidate_restart_lsn>>'
        # <<slot.candidate_restart_valid, slot.candidate_restart_lsn>>

\* Every acknowledgement whose position has reached the trigger of a
\* pending candidate adopts it.
ReachingAckAdopts ==
    /\ (pc = "confirm_locked" /\ XminPending(slot)
            /\ slot.candidate_xmin_lsn <= lsn) => AdoptsXmin
    /\ (pc = "confirm_locked" /\ RestartPending(slot)
            /\ slot.candidate_restart_valid <= lsn) => AdoptsRestart

\* C12 as stated: a pending candidate (v, t) stays as it is, whatever
\* proposals arrive, until the first acknowledgement of a position >= t,
\* and that acknowledgement adopts v.
C12_AdoptedByFirstReachingAck ==
    [][ /\ (XminPending(slot) /\ XminCandidateChanges) => AdoptsXmin
        /\ (RestartPending(slot) /\ RestartCandidateChanges) => AdoptsRestart
        /\ ReachingAckAdopts
      ]_vars

\* C12 as amended: a pending candidate (v, t) stays as it is until either
\* the first acknowledgement of a position >= t, which adopts v, or a
\* forward-moving proposal with trigger <= confirmed_flush, which takes its
\* place and is adopted by the same call; no other proposal touches it.
C12_AdoptedUnlessReplaced ==
    [][ /\ (XminPending(slot) /\ XminCandidateChanges)
              => (AdoptsXmin \/ ReplacedByImmediateXmin)
        /\ (RestartPending(slot) /\ RestartCandidateChanges)
              => (AdoptsRestart \/ ReplacedByImmediateRestart)
        /\ ReachingAckAdopts
      ]_vars

\* C12 witness: an acknowledgement beyond the trigger of an xmin candidate
\* that had been pending above confirmed_flush has just adopted it.
C12_Witness ==
    /\ pc = "confirm_save"
    /\ call.op = "confirm"
    /\ XminPending(call.entry)
    /\ call.entry.candidate_xmin_lsn > call.entry.data.confirmed_flush
    /\ adopted_at.xmin = call.entry.candidate_xmin_lsn
    /\ lsn > adopted_at.xmin
    /\ slot.data.catalog_xmin = call.entry.candidate_catalog_xmin

\* C13: a call that changed effective_catalog_xmin has published it through
\* ReplicationSlotsComputeRequiredXmin by the time it returns, and when the
\* recomputation is invoked the new catalog_xmin is already saved and
\* already copied into effective_catalog_xmin.
C13_RecomputeAfterPersistAndUpdate ==
    /\ pc = "confirm_recompute" =>
          /\ disk.catalog_xmin = slot.data.catalog_xmin
          /\ slot.effective_catalog_xmin = slot.data.catalog_xmin
    /\ ( /\ pc = "returned"
         /\ call.op \in {"confirm", "xmin", "restart"}
         /\ slot.effective_catalog_xmin # call.entry.effective_catalog_xmin )
          => required_xmin = slot.effective_catalog_xmin

\* C13 witness: an immediately adopted xmin proposal returned with the new
\* effective_catalog_xmin saved and published.
C13_Witness ==
    /\ Returned("xmin")
    /\ slot.effective_catalog_xmin # call.entry.effective_catalog_xmin
    /\ required_xmin = slot.effective_catalog_xmin
    /\ disk.catalog_xmin = slot.effective_catalog_xmin

\* C14: a failed save ends the call on the spot: effective_catalog_xmin and
\* the published required xmin are what they were; and whatever happens
\* afterwards, every change of effective_catalog_xmin installs the
\* catalog_xmin that is in the slot's file at that moment.
C14_SaveFailureAborts ==
    /\ [](Returned("savefail") =>
            /\ slot.effective_catalog_xmin = call.entry.effective_catalog_xmin
            /\ required_xmin = call.val)
    /\ [][(phase # "fresh"
            /\ slot'.effective_catalog_xmin # slot.effective_catalog_xmin)
              => slot'.effective_catalog_xmin = disk.catalog_xmin]_vars

\* C14 witness: the save of a newly adopted catalog_xmin failed; the slot
\* holds the unsaved value in memory and still enforces the saved one.
C14_Witness ==
    /\ Returned("savefail")
    /\ slot.data.catalog_xmin # call.entry.data.catalog_xmin
    /\ disk.catalog_xmin = call.entry.data.catalog_xmin
    /\ slot.effective_catalog_xmin = disk.catalog_xmin

\* The callbacks whose wrappers open the output for writes, and the others.
WritingCallbacks == {"begin", "change", "commit", "message"}
NonWritingCallbacks == {"startup", "shutdown", "filter_by_origin"}

WriteWithoutPrepare ==
    "OutputPluginPrepareWrite needs to be called before OutputPluginWrite"

\* C15: OutputPluginPrepareWrite reaches ctx->prepare_write only while a
\* begin, change, commit or message callback is executing; in particular
\* not once such a callback has returned.
C15_PrepareWriteOnlyInsideCallback ==
    [][out'.prepare_write # out.prepare_write => cb \in WritingCallbacks]_vars

\* C16: OutputPluginWrite reaches ctx->write only with prepared_write set,
\* and clears it; a call with prepared_write clear raises and forwards
\* nothing; so the forwarded writes never outnumber the forwarded
\* prepares.
C16_WriteOnlyWhenPrepared ==
    /\ [](out.write <= out.prepare_write)
    /\ [][ /\ out'.write # out.write =>
                (ctx.prepared_write /\ ~ctx'.prepared_write)
           /\ (fault' = WriteWithoutPrepare /\ fault = "none") =>
                (~ctx.prepared_write /\ out'.write = out.write)
         ]_vars

\* C16 witness: a write consumed the only prepare, and the write attempted
\* next raised.
C16_Witness ==
    /\ fault = WriteWithoutPrepare
    /\ out.prepare_write = 1
    /\ out.write = 1

\* C17: while a startup, shutdown or filter_by_origin callback executes,
\* accept_writes is false and no OutputPluginPrepareWrite is forwarded;
\* while a begin, change, commit or message callback executes,
\* accept_writes is true.
C17_WindowOnlyInWritingCallbacks ==
    /\ [](/\ cb \in NonWritingCallbacks => ~ctx.accept_writes
          /\ cb \in WritingCallbacks => ctx.accept_writes)
    /\ [][out'.prepare_write # out.prepare_write
            => cb \notin NonWritingCallbacks]_vars

\* C17 witness: the filter_by_origin callback executes with accept_writes
\* false after an earlier callback had prepared a write.
C17_Witness ==
    /\ cb = "filter_by_origin"
    /\ out.prepare_write > 0
    /\ ctx.prepared_write
    /\ ~ctx.accept_writes

\* C18: whenever control leaves a callback wrapper, by return or by an
\* error, the error context stack is what it was before the wrapper
\* pushed its frame.
C18_FramePoppedOnEveryExit ==
    [][(cb # "none" /\ cb' = "none") =>
          error_context_stack'
             = SubSeq(error_context_stack, 1, Len(error_context_stack) - 1)
      ]_vars

\* C19: the shutdown callback is invoked by FreeDecodingContext only for a
\* session whose startup callback ran and returned, for every such session
\* (of a plugin that has a shutdown callback), and while the reorder
\* buffer, the snapshot builder and the reader are still allocated.
C19_ShutdownIffStartupSucceeded ==
    /\ cb = "shutdown" =>
          /\ out.startup = "returned"
          /\ ctx.reorder = "allocated"
          /\ ctx.snapshot_builder = "allocated"
          /\ ctx.reader = "allocated"
    /\ out.startup # "returned" => out.shutdown = 0
    /\ (phase = "closed" /\ out.startup = "returned"
           /\ ctx.callbacks.shutdown_cb) => out.shutdown = 1

\* C20: FreeDecodingContext never faults and never releases the reorder
\* buffer, the snapshot builder or the reader a second time, also when
\* called on a context that was freed before.
C20_CloseIdempotent ==
    /\ fault # "invalid memory access"
    /\ out.released.reorder <= 1
    /\ out.released.snapshot_builder <= 1
    /\ out.released.reader <= 1

\* The errors the Create...DecodingContext functions report to the user for
\* a slot, or a transaction, they cannot work with.
UserFacingErrors ==
    {PhysicalSlotError, OtherDatabaseError, WriteTransactionError}

\* This step is the call of the named function.
Calls(name) == call' # call /\ call'.op = name

\* C21: CreateInitDecodingContext and CreateDecodingContext on a physical
\* slot or a slot of another database, and CreateInitDecodingContext in a
\* transaction that has an xid, raise the matching user-facing error and
\* in that step change no slot field, save nothing, recompute nothing,
\* record nothing, build no context and call no callback; a session that
\* ended with such an error has no context and saw no callback.
C21_RejectedBeforeAnyEffect ==
    /\ [][((Calls("create") \/ Calls("resume")) /\ SlotIsPhysical(slot))
            => fault' = PhysicalSlotError]_vars
    /\ [][((Calls("create") \/ Calls("resume")) /\ SlotIsLogical(slot)
              /\ slot.data.database # MyDatabaseId)
            => fault' = OtherDatabaseError]_vars
    /\ [][(Calls("create") /\ slot.data.database = MyDatabaseId
              /\ xact = "write")
            => fault' = WriteTransactionError]_vars
    /\ [][(fault' \in UserFacingErrors /\ fault = "none") =>
            /\ phase' = "failed"
            /\ slot' = slot
            /\ disk' = disk
            /\ required_xmin' = required_xmin
            /\ ShmemVariableCache' = ShmemVariableCache
            /\ ctx' = NoContext
            /\ cb' = "none"
            /\ out' = out]_vars
    /\ [](fault \in UserFacingErrors =>
            /\ ctx = NoContext
            /\ out.startup = "no"
            /\ cb = "none")

\* C21 witness: CreateInitDecodingContext was called on a logical slot of
\* this database inside a transaction that has written, and was refused.
C21_Witness ==
    /\ call.op = "create"
    /\ fault = WriteTransactionError
    /\ SlotIsLogical(slot)
    /\ slot = call.entry
    /\ xact = "write"

\* C22: CreateDecodingContext called while oldestCatalogXmin follows the
\* slot's catalog_xmin raises an error, the catalogs-removed error on a
\* slot it otherwise accepts, in a step that leaves the slot and its file
\* as they are and builds no context; no startup callback is ever called
\* in a session that ended with that error.
C22_ResumeFailsWhenThresholdFollows ==
    /\ [][(/\ Calls("resume")
            /\ TransactionIdFollows(ShmemVariableCache.oldestCatalogXmin,
                                    slot.data.catalog_xmin)) =>
            /\ fault' # "none"
            /\ slot.data.database = MyDatabaseId
                  => fault' = CatalogsRemovedError
            /\ phase' = "failed"
            /\ slot' = slot
            /\ disk' = disk
            /\ ctx' = NoContext
            /\ cb' = "none"
            /\ out' = out]_vars
    /\ [](fault = CatalogsRemovedError =>
            /\ ctx = NoContext
            /\ out.startup = "no")

\* C22 witness: the resumption of a slot of this database failed with the
\* catalogs-removed error under a valid oldestCatalogXmin that follows the
\* slot's catalog_xmin.
C22_Witness ==
    /\ call.op = "resume"
    /\ fault = CatalogsRemovedError
    /\ slot.data.database = MyDatabaseId
    /\ TransactionIdIsNormal(slot.data.catalog_xmin)
    /\ TransactionIdFollows(ShmemVariableCache.oldestCatalogXmin,
                            slot.data.catalog_xmin)

\* C23: once CreateInitDecodingContext has called the startup callback, and
\* when it has returned the context, the slot's catalog_xmin and
\* effective_catalog_xmin are the xid GetOldestSafeDecodingTransactionId
\* returned, and the slot's file holds that catalog_xmin.
C23_PublishedAndSavedBeforeStartup ==
    (call.op = "create" /\ (out.startup # "no" \/ phase = "created")) =>
        /\ TransactionIdIsValid(call.val)
        /\ slot.data.catalog_xmin = call.val
        /\ slot.effective_catalog_xmin = call.val
        /\ disk.catalog_xmin = call.val

\* C23 witness: the startup callback is executing, called by
\* CreateInitDecodingContext, and the file already holds the new xmin.
C23_Witness ==
    /\ call.op = "create"
    /\ cb = "startup"
    /\ out.startup = "running"
    /\ disk.catalog_xmin = call.val
    /\ call.entry.data.catalog_xmin = InvalidTransactionId

\* C24: for a slot that CreateInitDecodingContext set up on a primary
\* without a record of the oldest catalog xmin, the record is valid from
\* then on and does not follow the slot's catalog_xmin, and no
\* CreateDecodingContext on the slot raises the catalogs-removed error.
C24_ForcedRecordKeepsSlotUsable ==
    out.created_without_record =>
        /\ TransactionIdIsValid(ShmemVariableCache.oldestCatalogXmin)
        /\ ~TransactionIdFollows(ShmemVariableCache.oldestCatalogXmin,
                                 slot.data.catalog_xmin)
        /\ fault # CatalogsRemovedError

\* C24 witness: a slot created on a primary without a record was used,
\* released and resumed, and its session streams.
C24_Witness ==
    /\ out.created_without_record
    /\ call.op = "resume"
    /\ phase = "stream"
    /\ fault = "none"
    /\ ShmemVariableCache.oldestCatalogXmin = slot.data.catalog_xmin

\* C25: the context CreateDecodingContext builds starts decoding at the
\* slot's confirmed_flush when the requested position is invalid or older,
\* and at the requested position otherwise, so never below confirmed_flush;
\* the call leaves confirmed_flush as it is; and when it raises, the slot,
\* the oldest catalog xmin or the plugin is the reason, whatever position
\* was requested.
C25_StartsAtOrAfterConfirmed ==
    call.op = "resume" =>
        /\ slot.data.confirmed_flush = call.entry.data.confirmed_flush
        /\ (ctx.context = "live"
              /\ fault \notin {NoBeginError, NoChangeError, NoCommitError}) =>
              /\ ctx.start_decoding_at =
                    IF \/ call.lsn = InvalidXLogRecPtr
                       \/ call.lsn < slot.data.confirmed_flush
                    THEN slot.data.confirmed_flush
                    ELSE call.lsn
              /\ ctx.start_decoding_at >= slot.data.confirmed_flush
        /\ fault \in {NoBeginError, NoChangeError, NoCommitError} =>
              fault = LoadOutputPlugin(plugin)
        /\ fault \notin {"none", "error in output plugin", NoBeginError,
                         NoChangeError, NoCommitError} =>
              /\ ctx = NoContext
              /\ CreateDecodingContextError # "none"
              /\ fault = CreateDecodingContextError

\* C25 witness: a valid position older than confirmed_flush was requested,
\* and the context was built and starts at confirmed_flush.
C25_Witness ==
    /\ call.op = "resume"
    /\ call.lsn # InvalidXLogRecPtr
    /\ call.lsn < slot.data.confirmed_flush
    /\ fault = "none"
    /\ ctx.context = "live"
    /\ ctx.start_decoding_at = slot.data.confirmed_flush

\* The errors XLogReadRecord makes DecodingContextFindStartpoint raise, and
\* the error a pending cancel request is raised as.
ReadErrors == {"could not read WAL", "no record found"}
InterruptError == "canceling statement due to user request"

\* Every read of DecodingContextFindStartpoint continues after the record
\* read before, the first one from the slot's restart_lsn.
ReadsSequentially ==
    [][EndRecPtr' # EndRecPtr =>
          EndRecPtr' > (IF phase = "created" THEN slot.data.restart_lsn
                        ELSE EndRecPtr)]_vars

\* C26 as claimed: the loop of DecodingContextFindStartpoint is left only
\* with the snapshot builder consistent, confirmed_flush then being the end
\* of the record read last, or by a read error, confirmed_flush then being
\* unchanged.
C26_LeftOnlyByConsistencyOrReadError ==
    /\ ReadsSequentially
    /\ [][(phase = "findstart" /\ phase' # "findstart") =>
            \/ /\ phase' = "stream"
               /\ ctx.consistent
               /\ slot'.data.confirmed_flush = EndRecPtr
            \/ /\ fault' \in ReadErrors
               /\ slot' = slot]_vars

\* C26 as it holds: the loop is left by a normal return only with the
\* snapshot builder consistent, confirmed_flush then being the end of the
\* record read last; otherwise only by a raised error, a read error or a
\* cancel request found by the interrupt check, with the slot unchanged.
C26_LeftByConsistencyOrError ==
    /\ ReadsSequentially
    /\ [][(phase = "findstart" /\ phase' # "findstart") =>
            \/ /\ phase' = "stream"
               /\ fault' = "none"
               /\ ctx.consistent
               /\ slot'.data.confirmed_flush = EndRecPtr
            \/ /\ phase' = "failed"
               /\ fault' \in ReadErrors \cup {InterruptError}
               /\ slot' = slot]_vars
    /\ [][(phase = "created" /\ fault' \in ReadErrors) => slot' = slot]_vars

\* C26 witness: DecodingContextFindStartpoint has returned; the builder is
\* consistent and confirmed_flush, invalid before, is the end of the
\* record read last.
C26_Witness ==
    /\ Returned("findstart")
    /\ ctx.consistent
    /\ call.entry.data.confirmed_flush = InvalidXLogRecPtr
    /\ slot.data.confirmed_flush = EndRecPtr
    /\ EndRecPtr > slot.data.restart_lsn

\* A step of the resolver that sends the termination signal.
Signals ==
    /\ resolver.pc = "signal"
    /\ resolver'.pc = "sleep"

\* The resolver gets to the place named.
Reaches(place) ==
    /\ resolver'.pc # resolver.pc
    /\ resolver'.pc = place

\* The entry is in use, owned, and enforces an xmin the limit leaves behind;
\* with no limit at all every enforced xmin is left behind.
StillConflicting(s, limit) ==
    /\ s.in_use
    /\ s.active_pid # 0
    /\ s.effective_catalog_xmin # InvalidTransactionId
    /\ \/ limit = InvalidTransactionId
       \/ TransactionIdPrecedes(s.effective_catalog_xmin, limit)

\* C27 as claimed: the resolver checks the slot again before it signals, so
\* that a signal is sent only while the slot is still owned by the process
\* that owned it when the wait began and still conflicts.
C27_NoSignalAfterReleaseDuringWait ==
    [][Signals =>
          /\ StillConflicting(ScannedSlot, resolver.new_catalog_xmin)
          /\ ScannedSlot.active_pid = resolver.active_pid]_vars

\* C27 as it holds: the check is made under the lock before each wait and
\* not after it.  The body of the loop is entered only from a check that
\* found the slot in use, owned and conflicting; the pid is read right
\* after that check; the wait and the signal follow with no check between
\* them, the signal going to the pid read; and a check that finds the slot
\* released or no longer conflicting moves on to the next slot with no
\* signal sent.
C27_CheckedBeforeEachWait ==
    /\ [][Reaches("capture") =>
            /\ resolver.pc = "test"
            /\ resolver.lock = 1
            /\ StillConflicting(ScannedSlot, resolver.new_catalog_xmin)]_vars
    /\ [][Reaches("wait") =>
            /\ resolver.pc = "capture"
            /\ resolver'.active_pid = ScannedSlot.active_pid]_vars
    /\ [][Reaches("signal") => resolver.pc = "wait"]_vars
    /\ [][signals' \ signals # {} =>
            /\ Signals
            /\ signals' = signals \cup {resolver.active_pid}]_vars
    /\ [][(/\ resolver.pc = "test"
           /\ resolver' # resolver
           /\ ~StillConflicting(ScannedSlot, resolver.new_catalog_xmin)) =>
            /\ resolver'.pc = "scan"
            /\ resolver'.i = resolver.i + 1
            /\ signals' = signals]_vars

\* C27 witness: the owner released the slot during the wait, and the signal
\* has gone to it all the same.
C27_Witness ==
    /\ resolver.pc = "sleep"
    /\ resolver.active_pid \in signals
    /\ ScannedSlot.in_use
    /\ ScannedSlot.active_pid = 0

\* C28: a termination signal goes only to the owner of a slot that the
\* latest check under the lock found in use, logical, owned and enforcing a
\* valid xmin that precedes the new limit; no signal goes to the owner of a
\* physical slot, to nobody, or for a slot whose xmin equals or follows the
\* limit.
C28_SignalsOnlyConflictingLogicalOwners ==
    /\ [][Reaches("capture") =>
            /\ ScannedSlot.in_use
            /\ ScannedSlot.data.database # InvalidOid
            /\ ScannedSlot.active_pid # 0
            /\ ScannedSlot.effective_catalog_xmin # InvalidTransactionId
            /\ resolver.new_catalog_xmin # InvalidTransactionId
            /\ TransactionIdPrecedes(ScannedSlot.effective_catalog_xmin,
                                     resolver.new_catalog_xmin)]_vars
    /\ [][Signals => resolver.active_pid # 0]_vars

\* C29: the resolver holds ReplicationSlotControlLock whenever it looks at
\* a slot and never while it waits, signals or sleeps; it never takes the
\* lock twice, and gives it up on returning, so that it holds no lock
\* outside the scan.  Every turn of the while loop goes through the wait,
\* and every signal is followed by the sleep before the lock is taken
\* again for the next test.
C29_LockNotHeldOverWaits ==
    /\ [](resolver.lock \in {0, 1})
    /\ [](resolver.pc \in {"scan", "test", "capture"} => resolver.lock = 1)
    /\ [](resolver.pc \in {"wait", "signal", "sleep", "reacquire"} =>
             resolver.lock = 0)
    /\ [](resolver.pc \in {"idle", "returned"} => resolver.lock = 0)
    /\ [][(resolver.pc = "scan" /\ Reaches("returned")) =>
             resolver.lock = 1 /\ resolver'.lock = 0]_vars
    /\ [][(resolver.pc = "capture" /\ resolver' # resolver) =>
             resolver'.pc = "wait"]_vars
    /\ [][(resolver.pc = "signal" /\ resolver' # resolver) =>
             resolver'.pc = "sleep"]_vars
    /\ [][Reaches("reacquire") => resolver.pc \in {"wait", "sleep"}]_vars
    /\ [][(resolver.pc # "scan" /\ Reaches("test")) =>
             resolver.pc = "reacquire"]_vars

\* C29 witness: the resolver is about to signal a backend a second time,
\* the first signal still pending, and holds no lock.
C29_Witness ==
    /\ resolver.pc = "signal"
    /\ resolver.active_pid \in signals
    /\ ScannedSlot.active_pid = resolver.active_pid
    /\ resolver.lock = 0

\* A backend takes a slot.
TakesSlot ==
    \E j \in 1..max_replication_slots :
       /\ replication_slots[j].active_pid = 0
       /\ replication_slots'[j].active_pid # 0

\* The scan goes past a slot, and the function returns, only on a check
\* under the lock that finds no owned logical slot in use there with a
\* valid xmin preceding the limit; it returns after the last entry, or at
\* once outside hot standby, where no slot is owned.
ReturnsOnlyWithoutConflict ==
    /\ [][resolver'.i # resolver.i =>
            \/ resolver'.pc \in {"idle", "returned"}
            \/ resolver.pc = "idle" /\ resolver'.i = 1
            \/ /\ resolver'.i = resolver.i + 1
               /\ resolver.lock = 1
               /\ ~ /\ ScannedSlot.in_use
                    /\ ScannedSlot.data.database # InvalidOid
                    /\ ScannedSlot.active_pid # 0
                    /\ ScannedSlot.effective_catalog_xmin
                          # InvalidTransactionId
                    /\ TransactionIdPrecedes(
                          ScannedSlot.effective_catalog_xmin,
                          resolver.new_catalog_xmin)]_vars
    /\ [][Reaches("returned") =>
            \/ resolver.pc = "scan" /\ resolver.i = max_replication_slots + 1
            \/ resolver.pc = "idle" /\ ~InHotStandby /\ owners = {0}]_vars

\* What does hold of the fair standby: the resolver returns in the end in
\* every run in which backends take slots only finitely often.
ReturnsUnlessSlotsAreTakenForever ==
    \/ []<><<TakesSlot>>_vars
    \/ (resolver.pc = "scan") ~> (resolver.pc = "returned")

\* C30: the resolver returns only without a conflict at its last check of
\* each slot, and under fair scheduling, every signalled owner honouring
\* the signal and releasing its slot, it returns in the end.
C30_ReturnsInTheEnd ==
    /\ ReturnsOnlyWithoutConflict
    /\ (resolver.pc = "scan") ~> (resolver.pc = "returned")

\* The errors of a plugin that leaves out a mandatory callback.
LoadErrors == {NoBeginError, NoChangeError, NoCommitError}

\* The plugin registers begin, change and commit callbacks.
RegistersMandatory ==
    plugin.begin_cb /\ plugin.change_cb /\ plugin.commit_cb

\* C31: under a plugin that leaves out the begin, the change or the commit
\* callback every Create...DecodingContext call that gets as far as
\* loading the plugin fails with the error for the first one missing, no
\* startup callback is called and no context is returned; a plugin that
\* registers the three never fails so, whatever optional callbacks it
\* leaves out.
C31_MandatoryCallbacksOrNoSession ==
    /\ [](~RegistersMandatory =>
             /\ out.startup = "no"
             /\ cb = "none"
             /\ phase \in {"fresh", "released", "failed"})
    /\ [](fault \in LoadErrors => ~RegistersMandatory)
    /\ [][((Calls("create") \/ Calls("resume")) /\ ~RegistersMandatory) =>
             /\ phase' = "failed"
             /\ \/ fault' \in UserFacingErrors \cup {CatalogsRemovedError}
                \/ fault' = (IF ~plugin.begin_cb THEN NoBeginError
                             ELSE IF ~plugin.change_cb THEN NoChangeError
                             ELSE NoCommitError)]_vars

\* C31 witness: a session was to be resumed under a plugin that registers
\* everything but the commit callback, and the call has failed for that.
C31_Witness ==
    /\ call.op = "resume"
    /\ plugin.begin_cb /\ plugin.change_cb /\ ~plugin.commit_cb
    /\ phase = "failed"
    /\ fault = NoCommitError
    /\ out.startup = "no"

\* Positions of the backend between SpinLockAcquire and SpinLockRelease.
LockedPcs ==
    {"xmin_locked", "restart_locked", "confirm_locked",
     "confirm_else_locked", "confirm_effective_locked"}

\* C32: the mutex is held only inside the locked blocks; it is free at
\* ReplicationSlotSave, at ReplicationSlotsComputeRequiredXmin, and where
\* a LogicalIncrease...ForSlot function calls
\* LogicalConfirmReceivedLocation, so that no SpinLockAcquire finds the
\* mutex held by the backend itself.
C32_MutexFreeAtSaveAndRecompute ==
    /\ [](mutex => pc \in LockedPcs)
    /\ [](pc \in {"increase_apply", "confirm_save", "confirm_effective",
                  "confirm_recompute"} => ~mutex)
    /\ [][(disk' # disk \/ required_xmin' # required_xmin) =>
             ~mutex /\ ~mutex']_vars
    /\ [][(~mutex /\ mutex') => pc \notin LockedPcs /\ pc' \in LockedPcs]_vars

\* C32 witness: LogicalIncreaseXminForSlot has adopted its proposal at
\* once and is at ReplicationSlotSave inside the
\* LogicalConfirmReceivedLocation it called, the mutex free.
C32_Witness ==
    /\ call.op = "xmin"
    /\ pc = "confirm_save"
    /\ updated_xmin
    /\ ~mutex

\* C33: every step of the owning backend that writes a field of the slot
\* is taken with the slot's mutex held.
C33_SlotWrittenUnderMutex ==
    [][slot' # slot => mutex]_vars

\* The fields of each track.
XminTrack(s) ==
    <<s.data.catalog_xmin, s.effective_catalog_xmin,
      s.candidate_catalog_xmin, s.candidate_xmin_lsn>>
RestartTrack(s) ==
    <<s.data.restart_lsn, s.candidate_restart_valid, s.candidate_restart_lsn>>

Forwards ==
    \/ out'.prepare_write = out.prepare_write + 1
    \/ out'.write = out.write + 1

\* C35: whenever OutputPluginPrepareWrite or OutputPluginWrite forwards
\* during a begin, change, commit or message callback, the position it
\* forwards is the position in the frame the wrapper pushed, and the xid it
\* forwards is the xid of the transaction the wrapper was called with (the
\* invalid xid for a message outside a transaction).
C35_FrameAndForwardedAgree ==
    [][(cb \in WritingCallbacks) /\ Forwards
          => (ctx.write_location = out.report_location
              /\ ctx.write_xid = out.txn)]_vars

\* C35, amended: the forwarded xid is the dispatched transaction's in all
\* four callbacks, the forwarded position is the frame's in begin, change
\* and message callbacks, and in a commit callback the frame holds the
\* beginning of the commit record while its end is forwarded.
C35_AgreeButForCommitPosition ==
    [][(cb \in WritingCallbacks) /\ Forwards
          => (/\ ctx.write_xid = out.txn
              /\ cb # "commit"
                    => ctx.write_location = out.report_location
              /\ cb = "commit"
                    => out.report_location < ctx.write_location)]_vars

\* A commit callback has prepared a write at the end of the commit record
\* while its frame holds the beginning of the record.
C35_CommitForwardsEndOfRecord ==
    /\ cb = "commit"
    /\ ctx.prepared_write
    /\ out.prepared.location # out.report_location

\* ---------------------------------------------------------------- C36
\* No function that works on the slot is executing.
Quiescent == pc \in {"idle", "returned"}

\* The candidate pending on the track is one the consumer has confirmed
\* already.
StaleXmin(s) ==
    XminPending(s) /\ s.candidate_xmin_lsn <= s.data.confirmed_flush
StaleRestart(s) ==
    RestartPending(s) /\ s.candidate_restart_valid <= s.data.confirmed_flush

\* C36: whenever no slot operation is in progress, every pending candidate
\* on either track has a trigger position strictly greater than
\* confirmed_flush.
C36_PendingTriggerPastConfirmed ==
    Quiescent => ~StaleXmin(slot) /\ ~StaleRestart(slot)

\* The two cases the claim names, each alone: after
\* DecodingContextFindStartpoint has set confirmed_flush, and after a
\* restart proposal that does not move restart_lsn forward.
C36_NotAfterFindStartpoint ==
    Returned("findstart") => ~StaleXmin(slot) /\ ~StaleRestart(slot)
C36_NotAfterNonForwardRestart ==
    Returned("restart") /\ ~ForwardRestart /\ ~StaleRestart(call.entry)
        => ~StaleRestart(slot)

\* ---------------------------------------------------------------- C37
\* C37: a write prepared in one callback is never completed in another:
\* prepared_write is false whenever a wrapper is entered, and whenever
\* OutputPluginWrite forwards to ctx->write, accept_writes is true and the
\* xid and the position it forwards are the ones the
\* OutputPluginPrepareWrite before it forwarded.
C37_WriteCompletesItsOwnPrepare ==
    /\ [][cb = "none" /\ cb' # "none" => ~ctx.prepared_write]_vars
    /\ [][out'.write = out.write + 1
            => (/\ ctx.accept_writes
                /\ ctx.write_xid = out.prepared.xid
                /\ ctx.write_location = out.prepared.location)]_vars

\* The three parts of C37, each alone.
C37_NotPreparedAtEntry ==
    [][cb = "none" /\ cb' # "none" => ~ctx.prepared_write]_vars
C37_WriteOnlyWhileAccepting ==
    [][out'.write = out.write + 1 => ctx.accept_writes]_vars
C37_WriteForwardsWhatWasPrepared ==
    [][out'.write = out.write + 1
          => (ctx.write_xid = out.prepared.xid
              /\ ctx.write_location = out.prepared.location)]_vars

\* ---------------------------------------------------------------- C38
\* The acknowledgement that is executing, or has returned, adopted the
\* candidate of the track.
AckAdoptedXmin ==
    XminPending(call.entry) /\ ~XminPending(slot)
AckAdoptedRestart ==
    RestartPending(call.entry) /\ ~RestartPending(slot)

\* An acknowledgement saves the slot exactly when it adopted a candidate,
\* and goes on to effective_catalog_xmin and the recomputation only when
\* it adopted one on the xmin track.
C38_SavesExactlyWhenAdopting ==
    /\ [](Returned("confirm") /\ (AckAdoptedXmin \/ AckAdoptedRestart)
            => disk = SavedImage(slot))
    /\ [][call.op = "confirm" /\ call'.op = "confirm" /\ disk' # disk
            => AckAdoptedXmin \/ AckAdoptedRestart]_vars
    /\ [][(call.op = "confirm" /\ call'.op = "confirm"
             /\ (pc' \in {"confirm_effective_locked", "confirm_recompute"}
                    \/ required_xmin' # required_xmin))
            => AckAdoptedXmin]_vars

\* An acknowledgement that adopts nothing changes confirmed_flush in memory
\* and nothing else.
C38_NonAdoptingOnlyConfirms ==
    [](Returned("confirm") /\ ~AckAdoptedXmin /\ ~AckAdoptedRestart
          => slot = [call.entry EXCEPT !.data.confirmed_flush = call.lsn])

\* The confirmed_flush a crash restores is at or below the one in memory
\* before it.
C38_ReloadedNeverNewer ==
    [](Returned("crash")
          => slot.data.confirmed_flush <= call.entry.data.confirmed_flush)

\* C38: LogicalConfirmReceivedLocation saves the slot exactly when at least
\* one track adopts in that call; a call that adopts nothing changes only
\* confirmed_flush in memory, saves nothing and recomputes nothing; so the
\* confirmed_flush reloaded after a crash may be older than the last
\* acknowledged one but is never newer.
C38_PersistIffAdopted ==
    /\ C38_SavesExactlyWhenAdopting
    /\ C38_NonAdoptingOnlyConfirms
    /\ C38_ReloadedNeverNewer

\* ---------------------------------------------------------------- C39
\* The backend is between LWLockAcquire(ProcArrayLock) and LWLockRelease.
InProcArrayLockRegion ==
    pc \in {"create_locked", "create_effective_set", "create_catalog_set",
            "create_computed"}

\* The step writes one of the slot's xmin fields or the required xmin.
PublishesXmin ==
    \/ slot'.effective_catalog_xmin # slot.effective_catalog_xmin
    \/ slot'.data.catalog_xmin # slot.data.catalog_xmin
    \/ required_xmin' # required_xmin

\* C39: in CreateInitDecodingContext the read of the oldest safe decoding
\* xid, its publication as effective_catalog_xmin and catalog_xmin and the
\* recomputation of the required xmin happen inside one exclusive hold of
\* ProcArrayLock; no other backend computes an xmin horizon in between,
\* and no horizon ever passes the value the slot publishes.
C39_PublishedUnderOneHold ==
    /\ [](InProcArrayLockRegion => procArray.lock = "exclusive")
    /\ [][PublishesXmin => (procArray.lock = "exclusive"
                            /\ procArray'.lock = "exclusive")]_vars
    /\ [][procArray'.horizon # procArray.horizon
            => ~InProcArrayLockRegion]_vars
    /\ [](pc \in {"create_effective_set", "create_catalog_set",
                  "create_computed", "create_published"}
            => ~TransactionIdFollows(procArray.horizon,
                                     slot.effective_catalog_xmin))

\* C39 witness: the lock is released, transactions have ended since, and
\* the horizon another backend computed afterwards is held back at the
\* xid the slot published.
C39_Witness ==
    /\ pc = "create_published"
    /\ procArray.lock = "free"
    /\ required_xmin = slot.effective_catalog_xmin
    /\ slot.data.catalog_xmin = slot.effective_catalog_xmin
    /\ procArray.horizon = slot.effective_catalog_xmin
    /\ TransactionIdFollows(procArray.oldest_xmin,
                            slot.effective_catalog_xmin)

\* ---------------------------------------------------------------- C40
\* C40: CreateDecodingContext raises an error when oldestCatalogXmin is
\* invalid, the catalogs-removed error on a slot it otherwise accepts; and
\* it never raises the catalogs-removed error when oldestCatalogXmin is
\* valid and precedes or equals the slot's catalog_xmin.
C40_InvalidFailsEqualPasses ==
    /\ [][(/\ Calls("resume")
            /\ ~TransactionIdIsValid(ShmemVariableCache.oldestCatalogXmin))
           => (/\ fault' # "none"
               /\ phase' = "failed"
               /\ SlotUnsuitable(slot) = "none"
                     => fault' = CatalogsRemovedError)]_vars
    /\ [][(/\ Calls("resume")
            /\ TransactionIdIsValid(ShmemVariableCache.oldestCatalogXmin)
            /\ TransactionIdPrecedesOrEquals(
                   ShmemVariableCache.oldestCatalogXmin,
                   slot.data.catalog_xmin))
           => (/\ fault' # CatalogsRemovedError
               /\ (SlotUnsuitable(slot) = "none"
                     /\ LoadOutputPlugin(plugin) = "none")
                     => (fault' = "none" /\ phase' = "resume_startup"))]_vars

\* C40 witness: the resumption of a slot whose catalog_xmin is exactly
\* oldestCatalogXmin was accepted and built its context.
C40_Witness ==
    /\ call.op = "resume"
    /\ phase = "resume_startup"
    /\ fault = "none"
    /\ ctx # NoContext
    /\ TransactionIdIsNormal(slot.data.catalog_xmin)
    /\ ShmemVariableCache.oldestCatalogXmin = slot.data.catalog_xmin

====
